---- MODULE Spec2Model ----
(***************************************************************************)
(* The fighter-state subsystem of punchy (src/src/fighter_state.rs): the   *)
(* intent queue, the priority resolver, the per-state transition systems   *)
(* and the state handlers, scheduled as Bevy stages with deferred          *)
(* commands.                                                               *)
(***************************************************************************)
EXTENDS Integers, Sequences, FiniteSets, TLC

VARIABLES
    system,              \* the system of the schedule that runs next
    components,          \* entity -> (state component name -> component data)
    transition_intents,  \* entity -> StateTransitionIntents queue
    commands,            \* deferred Commands of the running stage
    health,              \* entity -> Health
    role,                \* entity -> "player" | "enemy" | "boss"
    animation,           \* entity -> Animation of the fighter
    facing,              \* entity -> Facing
    velocity,            \* entity -> LinearVelocity
    inventory,           \* entity -> Inventory ("none" or an item kind)
    available_attacks,   \* entity -> AvailableAttacks (names, last = current)
    weapon,              \* entity -> weapon child entity ("none" or a record)
    items,               \* ground item entity -> item kind
    probe,               \* one call of a collector or of the resolver (ProbeSpec)
    script_item_grab_events  \* Events<ScriptItemGrabEvent>: the events sent so far

vars == <<system, components, transition_intents, commands, health, role,
          animation, facing, velocity, inventory, available_attacks, weapon,
          items, probe, script_item_grab_events>>

\* ------------------------------------------------------------------ bounds
MaxHealth == 1
LongHitstun == 2
MaxEvents == 1
LastFrame == 3
MaxAmmo == 1
ShootDelay == 1
DeltaTime == 1
MaxQueue == 3
MaxWrapped == 1
MaxProbeLen == 4
MaxProbeEvents == 2

\* ------------------------------------------------- priorities of the states
Idling_PRIORITY == 0
Moving_PRIORITY == 10
Throwing_PRIORITY == 15
Grabbing_PRIORITY == Throwing_PRIORITY
Flopping_PRIORITY == 30
GroundSlam_PRIORITY == 30
BossBombThrow_PRIORITY == 30
Punching_PRIORITY == 30
Chaining_PRIORITY == 30
MeleeAttacking_PRIORITY == 30
Shooting_PRIORITY == 30
ProjectileAttacking_PRIORITY == 30
Holding_PRIORITY == 35
HitStun_PRIORITY == 40
Dying_PRIORITY == 1000
Chaining_LENGTH == 2

AdditiveStates == {"Throwing", "Grabbing", "Holding"}

NonAdditiveStates ==
    {"Idling", "Moving", "Flopping", "GroundSlam", "BossBombThrow", "Punching",
     "Chaining", "MeleeAttacking", "Shooting", "ProjectileAttacking", "HitStun",
     "Dying"}

Priority(state) ==
    CASE state = "Idling" -> Idling_PRIORITY
      [] state = "Moving" -> Moving_PRIORITY
      [] state = "Throwing" -> Throwing_PRIORITY
      [] state = "Grabbing" -> Grabbing_PRIORITY
      [] state = "Flopping" -> Flopping_PRIORITY
      [] state = "GroundSlam" -> GroundSlam_PRIORITY
      [] state = "BossBombThrow" -> BossBombThrow_PRIORITY
      [] state = "Punching" -> Punching_PRIORITY
      [] state = "Chaining" -> Chaining_PRIORITY
      [] state = "MeleeAttacking" -> MeleeAttacking_PRIORITY
      [] state = "Shooting" -> Shooting_PRIORITY
      [] state = "ProjectileAttacking" -> ProjectileAttacking_PRIORITY
      [] state = "Holding" -> Holding_PRIORITY
      [] state = "HitStun" -> HitStun_PRIORITY
      [] state = "Dying" -> Dying_PRIORITY

\* ------------------------------------------ default data of the components
NoData == [unit |-> TRUE]
NoWeapon == [kind |-> "none"]
NoProbe == [op |-> "none"]
AttackDefault == [has_started |-> FALSE, is_finished |-> FALSE]
ThrownDefault == [has_started |-> FALSE, is_finished |-> FALSE, thrown |-> FALSE]
ShootingDefault ==
    [has_started |-> FALSE, is_finished |-> FALSE, spawned_bullet |-> FALSE]
ChainingDefault ==
    [has_started |-> FALSE, continue_chain |-> FALSE, can_extend |-> FALSE,
     transition_to_final |-> FALSE, transition_to_idle |-> FALSE, link |-> 0]

\* Timer::from_seconds(duration, TimerMode::Once)
TimerFromSeconds(duration) ==
    [duration |-> duration, elapsed |-> 0, finished |-> FALSE]

\* (a timer that time does not advance)
TimerStalls(timer, delta) == timer

\* Timer::tick(delta) of a TimerMode::Once timer
TimerTick(timer, delta) ==
    LET e == IF timer.elapsed + delta >= timer.duration
             THEN timer.duration ELSE timer.elapsed + delta
    IN  [timer EXCEPT !.elapsed = e, !.finished = (e >= timer.duration)]

\* StateTransition::new(component, priority, is_additive)
StateTransition(state, data, priority, is_additive) ==
    [state |-> state, data |-> data, priority |-> priority,
     is_additive |-> is_additive]

\* (an insertion that is not stable: of two intents of equal priority the one
\* pushed last comes first)
RECURSIVE InsertBeforeEqual(_, _)
InsertBeforeEqual(sorted, t) ==
    IF sorted = <<>> THEN <<t>>
    ELSE IF Head(sorted).priority > t.priority
         THEN <<Head(sorted)>> \o InsertBeforeEqual(Tail(sorted), t)
         ELSE <<t>> \o sorted

\* ------------------------------------------------------------ the resolver
\* transitions.sort_by(|a, b| b.priority.cmp(&a.priority)): a stable sort,
\* descending by priority, written as an insertion sort.
RECURSIVE InsertByPriority(_, _)
InsertByPriority(sorted, t) ==
    IF sorted = <<>> THEN <<t>>
    ELSE IF Head(sorted).priority >= t.priority
         THEN <<Head(sorted)>> \o InsertByPriority(Tail(sorted), t)
         ELSE <<t>> \o sorted

\* (a queue left in the order the intents were pushed)
Unsorted(q) == q

RECURSIVE SortByPriority(_)
SortByPriority(q) ==
    IF q = <<>> THEN <<>>
    ELSE InsertByPriority(SortByPriority(SubSeq(q, 1, Len(q) - 1)), q[Len(q)])

\* (a guard that lets an intent of equal priority through)
HigherOrEqualPriority(intent_priority, current_state_priority) ==
    intent_priority >= current_state_priority

\* the guard of the loop body: `intent.priority > current_state_priority`
HigherPriority(intent_priority, current_state_priority) ==
    intent_priority > current_state_priority

\* the early `return true` after a non-additive intent was applied
StopsScan(was_additive) == ~was_additive

\* The `for intent in transitions` loop: the intents that get applied, in order.
RECURSIVE AppliedIntents(_, _)
AppliedIntents(transitions, current_state_priority) ==
    IF transitions = <<>> THEN <<>>
    ELSE LET intent == Head(transitions) IN
         IF HigherPriority(intent.priority, current_state_priority)
         THEN IF StopsScan(intent.is_additive)
              THEN <<intent>>
              ELSE <<intent>> \o AppliedIntents(Tail(transitions), current_state_priority)
         ELSE AppliedIntents(Tail(transitions), current_state_priority)

\* (an apply that removes the current state whatever is_additive says)
ApplyReplacing(intent, current_state, entity) ==
    <<[cmd |-> "remove", entity |-> entity, component |-> current_state],
      [cmd |-> "insert", entity |-> entity, component |-> intent.state,
       data |-> intent.data]>>

\* (an apply that leaves the current state on the entity)
ApplyKeeping(intent, current_state, entity) ==
    <<[cmd |-> "insert", entity |-> entity, component |-> intent.state,
       data |-> intent.data]>>

\* StateTransition::apply::<CurrentState>: the commands it queues
Apply(intent, current_state, entity) ==
    (IF ~intent.is_additive
     THEN <<[cmd |-> "remove", entity |-> entity, component |-> current_state]>>
     ELSE <<>>)
    \o <<[cmd |-> "insert", entity |-> entity, component |-> intent.state,
          data |-> intent.data]>>

RECURSIVE ApplyAll(_, _, _)
ApplyAll(applied, current_state, entity) ==
    IF applied = <<>> THEN <<>>
    ELSE Apply(Head(applied), current_state, entity)
         \o ApplyAll(Tail(applied), current_state, entity)

\* transition_to_higher_priority_states::<CurrentState>(entity, priority, commands)
\* on the queue `pending`: the drained queue, the commands queued and the result.
TransitionToHigherPriorityStates(pending, current_state, current_state_priority, entity) ==
    LET transitions == SortByPriority(pending)
        applied == AppliedIntents(transitions, current_state_priority)
    IN  [queue |-> <<>>,
         transitions |-> transitions,
         applied |-> applied,
         commands |-> ApplyAll(applied, current_state, entity),
         removed |-> (\E i \in 1..Len(applied) : ~applied[i].is_additive)]

\* ------------------------------------------------------- small helpers
Fighters == DOMAIN components
Players == {e \in Fighters : role[e] = "player"}
Enemies == {e \in Fighters : role[e] \in {"enemy", "boss"}}
Bosses == {e \in Fighters : role[e] = "boss"}

Has(e, state) == state \in DOMAIN components[e]
With(state) == {e \in Fighters : Has(e, state)}

\* the entities of a set, in ascending order (the order a query is walked in)
RECURSIVE SetToSeq(_)
SetToSeq(S) ==
    IF S = {} THEN <<>>
    ELSE LET m == CHOOSE x \in S : \A y \in S : x <= y
         IN  <<m>> \o SetToSeq(S \ {m})

\* a function without one of its arguments
Without(f, x) == [y \in DOMAIN f \ {x} |-> f[y]]

\* a function with one more (or one overwritten) argument
WithEntry(f, x, v) == [y \in DOMAIN f \cup {x} |-> IF y = x THEN v ELSE f[y]]

Left == "Left"
Right == "Right"
ZERO == <<0, 0>>

\* frame windows of an attack (AttackMeta.frames of the asset metadata)
AttackFrames == [startup |-> 1, active |-> 2, recovery |-> 3]

ItemKinds ==
    {"Throwable", "Script", "BreakableBox", "Bomb", "MeleeWeapon", "ProjectileWeapon"}

\* ------------------------------------------------------ Animation Track
NoAnimation ==
    [current_animation |-> "none", current_frame |-> 0, finished |-> FALSE,
     repeating |-> FALSE]

\* Animation::play(name, repeating)
Play(name, repeating) ==
    [current_animation |-> name, current_frame |-> 0, finished |-> FALSE,
     repeating |-> repeating]

\* Animation::is_finished()
IsFinished(anim) == anim.finished

\* the clips whose current_frame a state system reads
FrameClips == {"attacking", "chaining", "followup", "bomb_throw", "shooting"}

\* What the animation system may make of `anim` within one frame of the game.
\* A frame index may last several frames of the game and a looping clip never
\* finishes.  The frame index is tracked for the clips of FrameClips, up to
\* LastFrame; of any other clip only the end is tracked.
Animate(anim) ==
    IF anim.current_animation = "none" \/ anim.finished \/ anim.repeating
    THEN {anim}
    ELSE {anim,
          IF anim.current_animation \in FrameClips /\ anim.current_frame < LastFrame
          THEN [anim EXCEPT !.current_frame = @ + 1]
          ELSE [anim EXCEPT !.finished = TRUE]}

\* ------------------------------------------------------------ scheduling
\* The systems of a frame in the order FighterStatePlugin::build adds them:
\* the collect set, the transition set (.after the collect set), the end of
\* CoreStage::PreUpdate where the deferred commands are applied, the handler
\* set, the end of CoreStage::Update, and the rest of the frame.  The systems
\* of one set have no order among them; they are run here in the order they
\* are added in.
Schedule ==
    <<"collect_fighter_eliminations", "collect_hitstuns", "collect_player_actions",
      "emit_enemy_intents",
      "transition_from_idle", "transition_from_chain", "transition_from_flopping",
      "transition_from_punching", "transition_from_ground_slam",
      "transition_from_hitstun", "transition_from_melee_attacking",
      "transition_from_shooting", "transition_from_bomb_throw",
      "transition_from_proj_attacking",
      "pre_update_end",
      "idling", "chaining", "flopping", "punching", "ground_slam", "moving",
      "throwing", "grabbing", "hitstun", "dying", "melee_attacking", "shooting",
      "bomb_throw", "projectile_attacking",
      "update_end",
      "frame_end">>

\* the state component whose presence a system's query asks for
QueryState ==
    [transition_from_idle |-> "Idling", transition_from_chain |-> "Chaining",
     transition_from_flopping |-> "Flopping", transition_from_punching |-> "Punching",
     transition_from_ground_slam |-> "GroundSlam", transition_from_hitstun |-> "HitStun",
     transition_from_melee_attacking |-> "MeleeAttacking",
     transition_from_shooting |-> "Shooting",
     transition_from_bomb_throw |-> "BossBombThrow",
     transition_from_proj_attacking |-> "ProjectileAttacking",
     idling |-> "Idling", chaining |-> "Chaining", flopping |-> "Flopping",
     punching |-> "Punching", ground_slam |-> "GroundSlam", moving |-> "Moving",
     throwing |-> "Throwing", grabbing |-> "Grabbing", hitstun |-> "HitStun",
     dying |-> "Dying", bomb_throw |-> "BossBombThrow",
     projectile_attacking |-> "ProjectileAttacking"]

\* (a search for the weapon child that takes a weapon of any kind)
HasSomeWeapon(wpn, kind) == wpn.kind # "none"

\* the search of a weapon handler for the child of the fighter that has the
\* component of its kind (MeleeWeapon, ProjectileWeapon)
HasWeapon(wpn, kind) == wpn.kind = kind

\* the entities the main query of a system matches, in a world with the state
\* components `comps` and the weapon children `wpn`
MatchesIn(sys, comps, wpn) ==
    LET all == DOMAIN comps
        with(state) == {e \in all : state \in DOMAIN comps[e]}
        players == {e \in all : role[e] = "player"}
        enemies == {e \in all : role[e] \in {"enemy", "boss"}}
        bosses == {e \in all : role[e] = "boss"}
    IN  CASE sys \in {"collect_fighter_eliminations", "collect_hitstuns"} -> all
          [] sys = "collect_player_actions" -> players
          [] sys = "emit_enemy_intents" -> enemies
          [] sys = "chaining" -> with("Chaining") \cap players
          [] sys \in {"ground_slam", "bomb_throw"} -> with(QueryState[sys]) \cap bosses
          [] sys = "projectile_attacking" -> with("ProjectileAttacking") \cap enemies
          [] sys = "melee_attacking" ->
                {e \in with("MeleeAttacking") : HasWeapon(wpn[e], "MeleeWeapon")}
          [] sys = "shooting" ->
                {e \in all : HasWeapon(wpn[e], "ProjectileWeapon")}
          [] sys \in DOMAIN QueryState -> with(QueryState[sys])
          [] OTHER -> {}

Matches(sys) == MatchesIn(sys, components, weapon)

IndexOf(sys) == CHOOSE i \in 1..Len(Schedule) : Schedule[i] = sys

\* The system that runs after `sys`.  A system whose query matches no entity
\* does nothing, and the frame goes on with the next one; the ends of the stages
\* always run.
NextSystemIn(sys, comps, wpn) ==
    LET work(x) == x \in {"pre_update_end", "update_end", "frame_end"}
                   \/ MatchesIn(x, comps, wpn) # {}
        later == {i \in (IndexOf(sys) + 1)..Len(Schedule) : work(Schedule[i])}
    IN  IF later = {} THEN Schedule[1]
        ELSE Schedule[CHOOSE i \in later : \A j \in later : i <= j]

NextSystem(sys) == NextSystemIn(sys, components, weapon)

\* a system runs: it is its turn, and then it is the turn of the next one
Runs(sys) ==
    /\ system = sys
    /\ system' = NextSystem(sys)

\* --------------------------------------------------------- the collectors
\* What the collectors are handed: a fighter that is already Dying is no longer
\* hit and no longer controlled (nothing reads its queue again).
Controlled(e) == ~Has(e, "Dying")

\* push_back of several intents on the queue of one fighter
PushBack(queues, e, pushed) == [queues EXCEPT ![e] = @ \o pushed]

\* (a test that misses a health of exactly zero)
DepletedBelowZero(h) == h < 0

\* the test `**health <= 0` of collect_fighter_eliminations
Depleted(h) == h <= 0

\* the intent collect_fighter_eliminations pushes for a fighter
EliminationIntents(h) ==
    IF Depleted(h)
    THEN <<StateTransition("Dying", NoData, Dying_PRIORITY, FALSE)>>
    ELSE <<>>

collect_fighter_eliminations ==
    /\ Runs("collect_fighter_eliminations")
    /\ transition_intents' =
          [e \in Fighters |-> transition_intents[e] \o EliminationIntents(health[e])]
    /\ UNCHANGED <<components, commands, health, role, animation, facing, velocity,
                   inventory, available_attacks, weapon, items, probe,
                   script_item_grab_events>>

\* A DamageEvent: the damaged entity, the knockback and the hitstun duration.
\* The x component of the knockback decides the animation; y stays 0.
DamageEventsOf(entities) ==
    [damaged_entity : entities,
     damage_velocity : {<<-1, 0>>, <<0, 0>>},
     hitstun_duration : {0, LongHitstun}]

RECURSIVE SeqsUpTo(_, _)
SeqsUpTo(S, n) ==
    IF n = 0 THEN {<<>>}
    ELSE LET shorter == SeqsUpTo(S, n - 1)
         IN  shorter \cup {Append(q, x) : q \in {r \in shorter : Len(r) = n - 1}, x \in S}

\* (a test that skips negative durations only)
NegativeHitstun(event) == event.hitstun_duration < 0

\* the test `event.hitstun_duration == 0.0` that skips an event
NoHitstun(event) == event.hitstun_duration = 0

\* the intent one damage event makes
HitStunIntent(event) ==
    StateTransition("HitStun",
                    [pushback |-> event.damage_velocity,
                     timer |-> TimerFromSeconds(event.hitstun_duration)],
                    HitStun_PRIORITY, FALSE)

\* the loop over damage_events.iter(), threading the queues
RECURSIVE HitstunLoop(_, _)
HitstunLoop(events, queues) ==
    IF events = <<>> THEN queues
    ELSE LET event == Head(events) IN
         IF event.damaged_entity \notin DOMAIN queues \/ NoHitstun(event)
         THEN HitstunLoop(Tail(events), queues)
         ELSE HitstunLoop(Tail(events),
                          PushBack(queues, event.damaged_entity, <<HitStunIntent(event)>>))

collect_hitstuns ==
    /\ Runs("collect_hitstuns")
    /\ \E events \in SeqsUpTo(DamageEventsOf({e \in Fighters : Controlled(e)}), MaxEvents) :
          transition_intents' = HitstunLoop(events, transition_intents)
    /\ UNCHANGED <<components, commands, health, role, animation, facing, velocity,
                   inventory, available_attacks, weapon, items, probe,
                   script_item_grab_events>>

\* AvailableAttacks::current_attack(): the last attack of the list
CurrentAttack(attacks) == attacks[Len(attacks)]

\* What a player's ActionState can report in one frame.
Directions == {<<-1, 0>>, <<1, 0>>}
NoInput == [attack |-> FALSE, throw |-> FALSE, move |-> FALSE, direction |-> <<1, 0>>]
PlayerInputs ==
    {i \in [attack : BOOLEAN, throw : BOOLEAN, move : BOOLEAN, direction : Directions] :
        ~i.move => i.direction = NoInput.direction}

\* (a collector that answers every attack press with a punch)
AlwaysPunching(name) ==
    <<StateTransition("Punching", AttackDefault, Punching_PRIORITY, FALSE)>>

\* the `match available_attacks.current_attack().name.as_str()` of the collector
AttackIntents(name) ==
    CASE name = "chain" ->
            <<StateTransition("Chaining", ChainingDefault, Chaining_PRIORITY, FALSE)>>
      [] name = "punch" ->
            <<StateTransition("Punching", AttackDefault, Punching_PRIORITY, FALSE)>>
      [] name = "flop" ->
            <<StateTransition("Flopping", AttackDefault, Flopping_PRIORITY, FALSE)>>
      [] name = "melee" ->
            <<StateTransition("MeleeAttacking", AttackDefault, MeleeAttacking_PRIORITY, FALSE)>>
      [] name = "projectile" ->
            <<StateTransition("Shooting", ShootingDefault, Shooting_PRIORITY, FALSE)>>
      [] OTHER -> <<>>

\* (an attack branch that does not look at Holding)
AttackPressedWhileHolding(input, holding) == input.attack

\* `just_pressed(Attack) && holding.is_none()`, then `chaining.is_none()`
AttackPressed(input, holding) == input.attack /\ ~holding

\* (a grab/throw branch that pushes both intents)
ThrowAndGrabIntents(inv) ==
    <<StateTransition("Throwing", NoData, Throwing_PRIORITY, TRUE),
      StateTransition("Grabbing", NoData, Grabbing_PRIORITY, TRUE)>>

\* the grab/throw branch: Throwing with an item in the inventory, else Grabbing
ThrowIntents(inv) ==
    IF inv # "none"
    THEN <<StateTransition("Throwing", NoData, Throwing_PRIORITY, TRUE)>>
    ELSE <<StateTransition("Grabbing", NoData, Grabbing_PRIORITY, TRUE)>>

\* the movement branch: direction * stats.movement_speed (speed 1)
MoveIntents(direction) ==
    <<StateTransition("Moving", [velocity |-> direction], Moving_PRIORITY, FALSE)>>

\* everything collect_player_actions pushes for one player
PlayerIntents(e, input) ==
    (IF AttackPressed(input, Has(e, "Holding")) /\ ~Has(e, "Chaining")
     THEN AttackIntents(CurrentAttack(available_attacks[e])) ELSE <<>>)
    \o (IF input.throw THEN ThrowIntents(inventory[e]) ELSE <<>>)
    \o (IF input.move THEN MoveIntents(input.direction) ELSE <<>>)

\* ... and what it writes to the state components of that player
PlayerComponents(e, input) ==
    IF AttackPressed(input, Has(e, "Holding")) /\ Has(e, "Chaining")
    THEN [components[e] EXCEPT !["Chaining"].continue_chain = TRUE]
    ELSE components[e]

\* collect_player_actions, with `input[e]` the ActionState of player `e`
CollectPlayerActions(input) ==
    /\ Runs("collect_player_actions")
    /\ transition_intents' =
          [e \in Fighters |->
              IF e \in Players
              THEN transition_intents[e] \o PlayerIntents(e, input[e])
              ELSE transition_intents[e]]
    /\ components' =
          [e \in Fighters |->
              IF e \in Players THEN PlayerComponents(e, input[e])
              ELSE components[e]]
    /\ UNCHANGED <<commands, health, role, animation, facing, velocity, inventory,
                   available_attacks, weapon, items, probe,
                   script_item_grab_events>>

collect_player_actions ==
    \E input \in [Players -> PlayerInputs] :
       /\ \A e \in Players : ~Controlled(e) => input[e] = NoInput
       /\ CollectPlayerActions(input)

\* The intents the enemy AI may push for one enemy in one frame: none, a move,
\* or one attack state of the enemy's kind.
EnemyIntents(e) ==
    {<<>>}
    \cup (IF Controlled(e)
          THEN {MoveIntents(d) : d \in Directions}
               \cup {<<StateTransition(s, IF s \in {"BossBombThrow", "ProjectileAttacking"}
                                          THEN ThrownDefault ELSE AttackDefault,
                                       Priority(s), FALSE)>> :
                        s \in IF role[e] = "boss"
                              THEN {"GroundSlam", "BossBombThrow"}
                              ELSE {"Punching", "Flopping", "ProjectileAttacking"}}
          ELSE {})

emit_enemy_intents ==
    /\ Runs("emit_enemy_intents")
    /\ \E pushed \in [Enemies -> UNION {EnemyIntents(e) : e \in Enemies}] :
          /\ \A e \in Enemies : pushed[e] \in EnemyIntents(e)
          /\ transition_intents' =
                [e \in Fighters |->
                    IF e \in Enemies THEN transition_intents[e] \o pushed[e]
                    ELSE transition_intents[e]]
    /\ UNCHANGED <<components, commands, health, role, animation, facing, velocity,
                   inventory, available_attacks, weapon, items, probe,
                   script_item_grab_events>>

\* (an exit rule in which a chain that is over goes back to Idling: no finisher)
ExitWithoutFinisher(state, data, entity) ==
    LET to == <<[cmd |-> "remove", entity |-> entity, component |-> state],
                [cmd |-> "insert", entity |-> entity, component |-> "Idling",
                 data |-> NoData]>>
    IN  CASE state = "Idling" -> <<>>
          [] state = "Chaining" ->
                IF data.transition_to_final \/ data.transition_to_idle THEN to ELSE <<>>
          [] state = "HitStun" -> IF data.timer.finished THEN to ELSE <<>>
          [] OTHER -> IF data.is_finished THEN to ELSE <<>>

\* (an exit rule that does not wait for is_finished)
ExitAtOnce(state, data, entity) ==
    LET to == <<[cmd |-> "remove", entity |-> entity, component |-> state],
                [cmd |-> "insert", entity |-> entity, component |-> "Idling",
                 data |-> NoData]>>
    IN  CASE state = "Idling" -> <<>>
          [] state = "Chaining" ->
                IF data.transition_to_final \/ data.transition_to_idle THEN to ELSE <<>>
          [] state = "HitStun" -> IF data.timer.finished THEN to ELSE <<>>
          [] OTHER -> to

\* ------------------------------------------------- the transition systems
\* the exit rule of a state: the commands it queues when its own finish
\* condition holds
ExitCommands(state, data, entity) ==
    LET to(target, d) ==
            <<[cmd |-> "remove", entity |-> entity, component |-> state],
              [cmd |-> "insert", entity |-> entity, component |-> target, data |-> d]>>
    IN  CASE state = "Idling" -> <<>>
          [] state = "Chaining" ->
                IF data.transition_to_final THEN to("Flopping", AttackDefault)
                ELSE IF data.transition_to_idle THEN to("Idling", NoData)
                ELSE <<>>
          [] state = "HitStun" ->
                IF data.timer.finished THEN to("Idling", NoData) ELSE <<>>
          [] OTHER ->
                IF data.is_finished THEN to("Idling", NoData) ELSE <<>>

\* (a loop body without the `continue 'entity` after a replacement)
TransitionThenExit(state, e) ==
    LET r == TransitionToHigherPriorityStates(transition_intents[e], state,
                                              Priority(state), e)
    IN  r.commands \o ExitCommands(state, components[e][state], e)

\* the body of the loop of a transition system, for one fighter in `state`
TransitionCommands(state, e) ==
    LET r == TransitionToHigherPriorityStates(transition_intents[e], state,
                                              Priority(state), e)
    IN  IF r.removed THEN r.commands
        ELSE r.commands \o ExitCommands(state, components[e][state], e)

\* the commands of the entities of a query, in the order the query is walked
RECURSIVE Concat(_, _)
Concat(entities, cmds) ==
    IF entities = <<>> THEN <<>>
    ELSE cmds[Head(entities)] \o Concat(Tail(entities), cmds)

\* a transition system: every fighter in `state` has its queue drained and
\* resolved against the priority of `state`
TransitionFrom(sys, state) ==
    /\ LET matched == Matches(sys)
           cmds == [e \in matched |-> TransitionCommands(state, e)]
       IN  /\ transition_intents' =
                 [e \in Fighters |-> IF e \in matched THEN <<>> ELSE transition_intents[e]]
           /\ commands' = commands \o Concat(SetToSeq(matched), cmds)
    /\ UNCHANGED <<components, health, role, animation, facing, velocity, inventory,
                   available_attacks, weapon, items, probe,
                   script_item_grab_events>>

transition_from_idle ==
    /\ Runs("transition_from_idle")
    /\ TransitionFrom("transition_from_idle", "Idling")
transition_from_chain ==
    /\ Runs("transition_from_chain")
    /\ TransitionFrom("transition_from_chain", "Chaining")
transition_from_flopping ==
    /\ Runs("transition_from_flopping")
    /\ TransitionFrom("transition_from_flopping", "Flopping")
transition_from_punching ==
    /\ Runs("transition_from_punching")
    /\ TransitionFrom("transition_from_punching", "Punching")
transition_from_ground_slam ==
    /\ Runs("transition_from_ground_slam")
    /\ TransitionFrom("transition_from_ground_slam", "GroundSlam")
transition_from_hitstun ==
    /\ Runs("transition_from_hitstun")
    /\ TransitionFrom("transition_from_hitstun", "HitStun")
transition_from_melee_attacking ==
    /\ Runs("transition_from_melee_attacking")
    /\ TransitionFrom("transition_from_melee_attacking", "MeleeAttacking")
transition_from_shooting ==
    /\ Runs("transition_from_shooting")
    /\ TransitionFrom("transition_from_shooting", "Shooting")
transition_from_bomb_throw ==
    /\ Runs("transition_from_bomb_throw")
    /\ TransitionFrom("transition_from_bomb_throw", "BossBombThrow")
transition_from_proj_attacking ==
    /\ Runs("transition_from_proj_attacking")
    /\ TransitionFrom("transition_from_proj_attacking", "ProjectileAttacking")

\* ------------------------------------------------------ the state handlers
\* a per-entity map with the entries of the matched entities replaced
Upd(f, new) == [e \in DOMAIN f |-> IF e \in DOMAIN new THEN new[e] ELSE f[e]]

\* the state component `state` of each matched entity replaced by new data
UpdState(state, new) ==
    [e \in Fighters |->
        IF e \in DOMAIN new THEN [components[e] EXCEPT ![state] = new[e]]
        ELSE components[e]]

Mirror(fac, x) == IF fac = Left THEN -x ELSE x

\* (a handler that adds its profile to the velocity it finds)
KeepVelocity(v) == v

\* `// Reset velocity`, `**velocity = Vec2::ZERO;`, ahead of the `+=` and `-=`
\* of the profile
ResetVelocity(v) == ZERO

Plus(v, w) == <<v[1] + w[1], v[2] + w[2]>>

\* the Attack child entity (the hitbox) an attack handler spawns
AttackSpawn(e) == [cmd |-> "spawn_attack", entity |-> e]

\* (a first-frame block that runs on every tick)
SpawnsOnEveryTick(data) == TRUE

\* `if !punching.has_started`: the first-frame block, which spawns the hitbox
SpawnsAttack(data) == ~data.has_started

\* the hitboxes the handler of `state` spawns for the fighters `m`
AttackSpawns(m, state) ==
    Concat(SetToSeq(m),
           [e \in m |-> IF SpawnsAttack(components[e][state])
                        THEN <<AttackSpawn(e)>> ELSE <<>>])

\* idling: play "idle" unless it plays already, and stop
idling ==
    /\ Runs("idling")
    /\ LET m == Matches("idling") IN
       /\ animation' =
             Upd(animation,
                 [e \in m |-> IF animation[e].current_animation # "idle"
                              THEN Play("idle", TRUE) ELSE animation[e]])
       /\ velocity' = Upd(velocity, [e \in m |-> ZERO])
    /\ UNCHANGED <<components, transition_intents, commands, health, role, facing,
                   inventory, available_attacks, weapon, items, probe,
                   script_item_grab_events>>

\* the animation of an attack state after its first-frame block
Started(data, anim, clip) == IF ~data.has_started THEN Play(clip, FALSE) ELSE anim

\* the forward jump of flopping at a frame of the animation
FlopVelocity(frame, fac) ==
    <<IF frame < AttackFrames.recovery THEN Mirror(fac, 200) ELSE 0,
      IF frame < AttackFrames.startup THEN 200 \div AttackFrames.startup
      ELSE IF frame < AttackFrames.active
           THEN -(200 \div (AttackFrames.active - AttackFrames.startup))
           ELSE 0>>

flopping ==
    /\ Runs("flopping")
    /\ LET m == Matches("flopping")
           anim == [e \in m |-> Started(components[e]["Flopping"], animation[e], "attacking")]
       IN
       /\ animation' = Upd(animation, anim)
       /\ components' =
             UpdState("Flopping",
                      [e \in m |-> [components[e]["Flopping"] EXCEPT
                                       !.has_started = TRUE,
                                       !.is_finished = @ \/ IsFinished(anim[e])]])
       /\ velocity' =
             Upd(velocity,
                 [e \in m |-> IF IsFinished(anim[e]) THEN ZERO
                              ELSE Plus(ResetVelocity(velocity[e]),
                                        FlopVelocity(anim[e].current_frame, facing[e]))])
       /\ commands' = commands \o AttackSpawns(m, "Flopping")
    /\ UNCHANGED <<transition_intents, health, role, facing, inventory,
                   available_attacks, weapon, items, probe,
                   script_item_grab_events>>

\* `available_attacks.attacks.iter().filter(|a| a.name == "chain").last()`
HasChainAttack(attacks) == \E i \in 1..Len(attacks) : attacks[i] = "chain"

\* (a chain that starts once and honours no continue request)
ChainStartsOnce(data) == ~data.has_started

\* `!chaining.has_started || chaining.continue_chain && chaining.can_extend`
ChainStarts(data) == ~data.has_started \/ (data.continue_chain /\ data.can_extend)

\* a chain that counts its links and never asks for the final transition
ChainWithoutFinal(data) ==
    [data EXCEPT !.has_started = TRUE,
                 !.continue_chain = FALSE,
                 !.link = IF data.continue_chain THEN @ + 1 ELSE @,
                 !.can_extend = FALSE]

\* the Chaining component after the block that starts a link
ChainLink(data) ==
    LET d1 == [data EXCEPT !.has_started = TRUE]
        d2 == IF data.continue_chain
              THEN [d1 EXCEPT !.continue_chain = FALSE,
                              !.link = @ + 1,
                              !.transition_to_final =
                                   @ \/ (data.link + 1 >= Chaining_LENGTH)]
              ELSE d1
    IN  [d2 EXCEPT !.can_extend = FALSE]

\* ... and the animation after it: the follow-up starts at frame 2
ChainAnimation(data, anim) ==
    IF data.continue_chain
    THEN [Play("followup", FALSE) EXCEPT !.current_frame = 2]
    ELSE Started(data, anim, "chaining")

\* the chaining handler for one fighter: component, animation and velocity,
\* and whether the block that starts a link, and spawns its hitbox, ran
ChainingStep(e) ==
    LET data == components[e]["Chaining"]
        has == HasChainAttack(available_attacks[e])
        starts == has /\ ChainStarts(data)
        anim == IF starts THEN ChainAnimation(data, animation[e]) ELSE animation[e]
        d1 == IF starts THEN ChainLink(data) ELSE data
        d2 == IF has /\ anim.current_frame > AttackFrames.active
              THEN [d1 EXCEPT !.can_extend = TRUE] ELSE d1
        d3 == IF IsFinished(anim) THEN [d2 EXCEPT !.transition_to_idle = TRUE] ELSE d2
        vel == IF ~has THEN velocity[e]
               ELSE IF anim.current_frame > AttackFrames.startup
                       /\ anim.current_frame < AttackFrames.recovery
                    THEN Plus(ResetVelocity(velocity[e]), <<Mirror(facing[e], 100), 0>>)
                    ELSE ResetVelocity(velocity[e])
    IN  [data |-> d3, animation |-> anim, velocity |-> vel, spawns |-> starts]

chaining ==
    /\ Runs("chaining")
    /\ LET m == Matches("chaining")
           step == [e \in m |-> ChainingStep(e)]
       IN
       /\ components' = UpdState("Chaining", [e \in m |-> step[e].data])
       /\ animation' = Upd(animation, [e \in m |-> step[e].animation])
       /\ velocity' = Upd(velocity, [e \in m |-> step[e].velocity])
       /\ commands' =
             commands \o Concat(SetToSeq(m),
                                [e \in m |-> IF step[e].spawns
                                             THEN <<AttackSpawn(e)>> ELSE <<>>])
    /\ UNCHANGED <<transition_intents, health, role, facing, inventory,
                   available_attacks, weapon, items, probe,
                   script_item_grab_events>>

punching ==
    /\ Runs("punching")
    /\ LET m == Matches("punching")
           anim == [e \in m |-> Started(components[e]["Punching"], animation[e], "attacking")]
       IN
       /\ animation' = Upd(animation, anim)
       /\ components' =
             UpdState("Punching",
                      [e \in m |-> [components[e]["Punching"] EXCEPT
                                       !.has_started = TRUE,
                                       !.is_finished = @ \/ IsFinished(anim[e])]])
       /\ velocity' = Upd(velocity, [e \in m |-> ZERO])
       /\ commands' = commands \o AttackSpawns(m, "Punching")
    /\ UNCHANGED <<transition_intents, health, role, facing, inventory,
                   available_attacks, weapon, items, probe,
                   script_item_grab_events>>

\* the jump of the ground slam at a frame of the animation
SlamVelocity(frame, fac) ==
    <<IF frame < AttackFrames.startup THEN Mirror(fac, 50) ELSE 0,
      IF frame < AttackFrames.startup THEN 800 \div AttackFrames.startup
      ELSE IF frame < AttackFrames.active
           THEN -(800 \div (AttackFrames.active - AttackFrames.startup))
           ELSE 0>>

ground_slam ==
    /\ Runs("ground_slam")
    /\ LET m == Matches("ground_slam")
           anim == [e \in m |-> Started(components[e]["GroundSlam"], animation[e], "attacking")]
       IN
       /\ animation' = Upd(animation, anim)
       /\ components' =
             UpdState("GroundSlam",
                      [e \in m |-> [components[e]["GroundSlam"] EXCEPT
                                       !.has_started = TRUE,
                                       !.is_finished = @ \/ IsFinished(anim[e])]])
       /\ velocity' =
             Upd(velocity,
                 [e \in m |-> IF IsFinished(anim[e]) THEN ZERO
                              ELSE Plus(ResetVelocity(velocity[e]),
                                        SlamVelocity(anim[e].current_frame, facing[e]))])
       /\ commands' = commands \o AttackSpawns(m, "GroundSlam")
    /\ UNCHANGED <<transition_intents, health, role, facing, inventory,
                   available_attacks, weapon, items, probe,
                   script_item_grab_events>>

\* (a test of the frame that does not look at the flag)
BombFrameWhateverThrown(frame, thrown) ==
    frame = AttackFrames.startup \/ frame = AttackFrames.active

\* the two frames at which the boss throws a bomb
BombFrame(frame, thrown) ==
    \/ (frame = AttackFrames.startup /\ ~thrown)
    \/ (frame = AttackFrames.active /\ thrown)

bomb_throw ==
    /\ Runs("bomb_throw")
    /\ LET m == Matches("bomb_throw")
           anim == [e \in m |-> Started(components[e]["BossBombThrow"], animation[e], "bomb_throw")]
           throws(e) == /\ ~IsFinished(anim[e])
                        /\ BombFrame(anim[e].current_frame, components[e]["BossBombThrow"].thrown)
       IN
       /\ animation' = Upd(animation, anim)
       /\ components' =
             UpdState("BossBombThrow",
                      [e \in m |-> [components[e]["BossBombThrow"] EXCEPT
                                       !.has_started = TRUE,
                                       !.thrown = IF throws(e) THEN ~@ ELSE @,
                                       !.is_finished = @ \/ IsFinished(anim[e])]])
       /\ velocity' = Upd(velocity, [e \in m |-> ZERO])
    /\ UNCHANGED <<transition_intents, commands, health, role, facing, inventory,
                   available_attacks, weapon, items, probe,
                   script_item_grab_events>>

projectile_attacking ==
    /\ Runs("projectile_attacking")
    /\ LET m == Matches("projectile_attacking")
           anim == [e \in m |->
                       Started(components[e]["ProjectileAttacking"], animation[e], "attacking")]
           throws(e) == /\ ~IsFinished(anim[e])
                        /\ anim[e].current_frame = AttackFrames.startup
                        /\ ~components[e]["ProjectileAttacking"].thrown
       IN
       /\ animation' = Upd(animation, anim)
       /\ components' =
             UpdState("ProjectileAttacking",
                      [e \in m |-> [components[e]["ProjectileAttacking"] EXCEPT
                                       !.has_started = TRUE,
                                       !.thrown = @ \/ throws(e),
                                       !.is_finished = @ \/ IsFinished(anim[e])]])
       /\ velocity' = Upd(velocity, [e \in m |-> ZERO])
    /\ UNCHANGED <<transition_intents, commands, health, role, facing, inventory,
                   available_attacks, weapon, items, probe,
                   script_item_grab_events>>

\* (a moving handler that leaves Moving without entering Idling)
MovingLeaves(e) == <<[cmd |-> "remove", entity |-> e, component |-> "Moving"]>>

\* (a moving handler that does not end the state)
MovingStays(e) == <<>>

\* the commands with which the moving handler ends the state
MovingCommands(e) ==
    <<[cmd |-> "remove", entity |-> e, component |-> "Moving"],
      [cmd |-> "insert", entity |-> e, component |-> "Idling", data |-> NoData]>>

moving ==
    /\ Runs("moving")
    /\ LET m == Matches("moving") IN
       /\ animation' =
             Upd(animation,
                 [e \in m |-> IF animation[e].current_animation # "running"
                              THEN Play("running", TRUE) ELSE animation[e]])
       /\ velocity' = Upd(velocity, [e \in m |-> components[e]["Moving"].velocity])
       /\ facing' =
             Upd(facing,
                 [e \in m |->
                     LET x == components[e]["Moving"].velocity[1] IN
                     IF x > 0 THEN Right ELSE IF x < 0 THEN Left ELSE facing[e]])
       /\ commands' = commands \o Concat(SetToSeq(m), [e \in m |-> MovingCommands(e)])
    /\ UNCHANGED <<components, transition_intents, health, role, inventory,
                   available_attacks, weapon, items, probe,
                   script_item_grab_events>>

\* the knockback animation, from the pushback and the facing of the fighter
HitStunAnimation(pushback, fac) ==
    LET is_left == pushback[1] < 0
        use_left_anim == IF fac = Left THEN ~is_left ELSE is_left
    IN  IF pushback = ZERO THEN "hitstun"
        ELSE IF use_left_anim THEN "knocked_left" ELSE "knocked_right"

hitstun ==
    /\ Runs("hitstun")
    /\ LET m == Matches("hitstun") IN
       /\ animation' =
             Upd(animation,
                 [e \in m |->
                     LET h == components[e]["HitStun"] IN
                     IF h.timer.elapsed = 0
                     THEN Play(HitStunAnimation(h.pushback, facing[e]), FALSE)
                     ELSE animation[e]])
       /\ components' =
             UpdState("HitStun",
                      [e \in m |-> [components[e]["HitStun"] EXCEPT
                                       !.timer = TimerTick(@, DeltaTime)]])
       /\ velocity' = Upd(velocity, [e \in m |-> components[e]["HitStun"].pushback])
    /\ UNCHANGED <<transition_intents, commands, health, role, facing, inventory,
                   available_attacks, weapon, items, probe,
                   script_item_grab_events>>

\* the dying handler for one fighter: start the animation, or despawn once the
\* animation that plays is "dying" and it is finished
DyingStarts(anim) == anim.current_animation # "dying"

\* (a despawn that does not wait for the end of the animation)
DespawnsAtOnce(anim) == anim.current_animation = "dying"

DyingDespawns(anim) == ~DyingStarts(anim) /\ IsFinished(anim)

\* (a dying handler that sends the fighter back to Idling)
DyingRevives(e) ==
    IF animation[e].current_animation = "dying" /\ animation[e].finished
    THEN <<[cmd |-> "remove", entity |-> e, component |-> "Dying"],
           [cmd |-> "insert", entity |-> e, component |-> "Idling", data |-> NoData]>>
    ELSE <<>>

DyingCommands(e) ==
    IF DyingDespawns(animation[e])
    THEN <<[cmd |-> "despawn_recursive", entity |-> e]>>
    ELSE <<>>

dying ==
    /\ Runs("dying")
    /\ LET m == Matches("dying") IN
       /\ animation' =
             Upd(animation,
                 [e \in m |-> IF DyingStarts(animation[e])
                              THEN Play("dying", FALSE) ELSE animation[e]])
       /\ velocity' =
             Upd(velocity,
                 [e \in m |-> IF DyingStarts(animation[e]) THEN ZERO ELSE velocity[e]])
       /\ commands' = commands \o Concat(SetToSeq(m), [e \in m |-> DyingCommands(e)])
    /\ UNCHANGED <<components, transition_intents, health, role, facing, inventory,
                   available_attacks, weapon, items, probe,
                   script_item_grab_events>>

\* ------------------------------------------------- throwing and grabbing
Remove(e, state) == [cmd |-> "remove", entity |-> e, component |-> state]

\* Vec::pop
Pop(attacks) == IF attacks = <<>> THEN attacks ELSE SubSeq(attacks, 1, Len(attacks) - 1)

\* a throwing handler that leaves Throwing on the fighter
ThrowWithoutRemoval(e, inv) ==
    IF inv \in {"BreakableBox", "Bomb"} THEN <<Remove(e, "Holding")>> ELSE <<>>

\* the commands of the throwing handler for one fighter holding `inv`
ThrowCommands(e, inv) ==
    (CASE inv \in {"BreakableBox", "Bomb"} -> <<Remove(e, "Holding")>>
       [] inv \in {"MeleeWeapon", "ProjectileWeapon"} ->
             <<[cmd |-> "spawn_item", kind |-> inv]>>
             \o (IF weapon[e].kind = inv
                 THEN <<[cmd |-> "despawn_weapon", entity |-> e]>> ELSE <<>>)
       [] OTHER -> <<>>)
    \o <<Remove(e, "Throwing")>>

\* (a throw that pops the attack list whatever is thrown)
ThrowAlwaysPops(attacks, inv) == Pop(attacks)

\* the attack list after a throw of `inv`
ThrowAttacks(attacks, inv) ==
    IF inv \in {"MeleeWeapon", "ProjectileWeapon"} THEN Pop(attacks) ELSE attacks

throwing ==
    /\ Runs("throwing")
    /\ LET m == Matches("throwing") IN
       /\ inventory' = Upd(inventory, [e \in m |-> "none"])
       /\ available_attacks' =
             Upd(available_attacks,
                 [e \in m |-> ThrowAttacks(available_attacks[e], inventory[e])])
       /\ commands' =
             commands \o Concat(SetToSeq(m), [e \in m |-> ThrowCommands(e, inventory[e])])
    /\ UNCHANGED <<components, transition_intents, health, role, animation, facing,
                   velocity, weapon, items, probe,
                   script_item_grab_events>>

\* the weapon child a pickup spawns
IdleAnimation ==
    [current_animation |-> "idle", current_frame |-> 0, finished |-> FALSE,
     repeating |-> FALSE]

\* Timer::from_seconds(shoot_delay) followed by set_elapsed(shoot_delay)
ReadyTimer == [duration |-> ShootDelay, elapsed |-> ShootDelay, finished |-> FALSE]

NewWeapon(kind) ==
    IF kind = "MeleeWeapon"
    THEN [kind |-> kind, animation |-> IdleAnimation]
    ELSE [kind |-> kind, animation |-> IdleAnimation, ammo |-> MaxAmmo,
          shoot_delay |-> ReadyTimer]

\* the name of the attack a weapon item adds to the attack list
WeaponAttack(kind) == IF kind = "MeleeWeapon" THEN "melee" ELSE "projectile"

\* The pickup of ground item `item` by fighter `e` whose inventory is empty,
\* on the threaded state `st` of the handler.
Pick(st, e, item) ==
    LET kind == items[item]
        despawn == <<[cmd |-> "despawn_item", item |-> item]>>
        took == [st EXCEPT !.picked = @ \cup {item}, !.inventory[e] = kind]
    IN  CASE kind = "Script" ->
                [st EXCEPT !.events = Append(@, [fighter |-> e]),
                           !.commands = @ \o despawn]
          [] kind = "Throwable" ->
                [took EXCEPT !.commands = @ \o despawn]
          [] kind \in {"BreakableBox", "Bomb"} ->
                [took EXCEPT
                    !.intents[e] =
                        Append(@, StateTransition("Holding", NoData, Holding_PRIORITY, TRUE)),
                    !.commands = @ \o <<[cmd |-> "hold_item", item |-> item, entity |-> e]>>]
          [] OTHER ->
                [took EXCEPT
                    !.attacks[e] = Append(@, WeaponAttack(kind)),
                    !.commands =
                        @ \o despawn
                          \o <<[cmd |-> "spawn_weapon", entity |-> e,
                                weapon |-> NewWeapon(kind)]>>]

\* (a grab that does not look at the inventory)
GrabWhateverCarried(st, e, near) ==
    LET found == SetToSeq({i \in near : i \notin st.picked})
        st1 == IF found # <<>> THEN Pick(st, e, Head(found)) ELSE st
    IN  [st1 EXCEPT !.commands = @ \o <<Remove(e, "Grabbing")>>]

\* The body of the loop over the grabbing fighters, for fighter `e` with the
\* ground items `near` within consts::PICK_ITEM_RADIUS: the first of them that
\* is not yet picked ends the search, and is picked if the inventory is empty.
GrabOne(st, e, near) ==
    LET found == SetToSeq({i \in near : i \notin st.picked})
        st1 == IF found # <<>> /\ st.inventory[e] = "none"
               THEN Pick(st, e, Head(found)) ELSE st
    IN  [st1 EXCEPT !.commands = @ \o <<Remove(e, "Grabbing")>>]

RECURSIVE GrabLoop(_, _, _)
GrabLoop(st, fighters, near) ==
    IF fighters = <<>> THEN st
    ELSE GrabLoop(GrabOne(st, Head(fighters), near[Head(fighters)]), Tail(fighters), near)

\* the grabbing handler, with `near[e]` the ground items within
\* consts::PICK_ITEM_RADIUS of fighter `e`
GrabAll(near) ==
    /\ Runs("grabbing")
    /\ LET st == GrabLoop([picked |-> {}, inventory |-> inventory,
                           intents |-> transition_intents,
                           attacks |-> available_attacks,
                           events |-> script_item_grab_events, commands |-> <<>>],
                          SetToSeq(Matches("grabbing")), near)
       IN  /\ inventory' = st.inventory
           /\ transition_intents' = st.intents
           /\ available_attacks' = st.attacks
           /\ script_item_grab_events' = st.events
           /\ commands' = commands \o st.commands
    /\ UNCHANGED <<components, health, role, animation, facing, velocity, weapon,
                   items, probe>>

grabbing ==
    \E near \in [Matches("grabbing") -> SUBSET DOMAIN items] : GrabAll(near)

\* ------------------------------------------------------ weapon handlers
melee_attacking ==
    /\ Runs("melee_attacking")
    /\ LET m == Matches("melee_attacking")
           anim == [e \in m |->
                       Started(components[e]["MeleeAttacking"], weapon[e].animation, "slashing")]
       IN
       /\ weapon' = Upd(weapon, [e \in m |-> [weapon[e] EXCEPT !.animation = anim[e]]])
       /\ components' =
             UpdState("MeleeAttacking",
                      [e \in m |-> [components[e]["MeleeAttacking"] EXCEPT
                                       !.has_started = TRUE,
                                       !.is_finished = @ \/ IsFinished(anim[e])]])
       /\ velocity' = Upd(velocity, [e \in m |-> ZERO])
       /\ commands' = commands \o AttackSpawns(m, "MeleeAttacking")
    /\ UNCHANGED <<transition_intents, health, role, animation, facing,
                   inventory, available_attacks, items, probe,
                   script_item_grab_events>>

\* Timer::reset
TimerReset(timer) == [timer EXCEPT !.elapsed = 0, !.finished = FALSE]

\* `weapon.ammo > 0` of a usize.  An ammo below zero stands for the value the
\* subtraction wraps to: -k is 2^64 - k.
AmmoLeft(ammo) == ammo # 0

\* `!shooting.has_started && weapon.ammo > 0 && weapon.shoot_delay.finished()`
ShotStarts(data, wpn) ==
    ~data.has_started /\ AmmoLeft(wpn.ammo) /\ wpn.shoot_delay.finished

\* the test that spawns the bullet
BulletSpawns(data, anim) ==
    /\ anim.current_animation = "shooting"
    /\ anim.current_frame = AttackFrames.startup
    /\ ~data.spawned_bullet

\* the shooting handler for one fighter with a projectile weapon; `spawns` tells
\* whether `weapon.ammo -= 1` ran
ShootingStep(e) ==
    LET w0 == [weapon[e] EXCEPT !.shoot_delay = TimerTick(@, DeltaTime)]
    IN  IF ~Has(e, "Shooting")
        THEN [weapon |-> w0, data |-> NoData, velocity |-> velocity[e], spawns |-> FALSE]
        ELSE LET data == components[e]["Shooting"]
                 starts == ShotStarts(data, w0)
                 w1 == IF starts
                       THEN [w0 EXCEPT !.shoot_delay = TimerReset(@),
                                       !.animation = Play("shooting", FALSE)]
                       ELSE w0
                 d1 == IF starts THEN [data EXCEPT !.has_started = TRUE] ELSE data
                 spawns == BulletSpawns(d1, w1.animation)
                 w2 == IF spawns THEN [w1 EXCEPT !.ammo = @ - 1] ELSE w1
                 d2 == IF spawns THEN [d1 EXCEPT !.spawned_bullet = TRUE] ELSE d1
                 done == IsFinished(w2.animation)
             IN  [weapon |-> IF done THEN [w2 EXCEPT !.animation = Play("idle", FALSE)]
                             ELSE w2,
                  data |-> IF done THEN [d2 EXCEPT !.is_finished = TRUE] ELSE d2,
                  velocity |-> ZERO,
                  spawns |-> spawns]

\* `weapon.ammo -= 1` on an ammo of 0 overflows: a build with overflow checks
\* panics, and the game stops; a build without them wraps the ammo around.  The
\* wrapped ammo is followed for MaxWrapped values.
shooting ==
    /\ system = "shooting"
    /\ LET m == Matches("shooting")
           step == [e \in m |-> ShootingStep(e)]
       IN
       \/ /\ \E e \in m : step[e].spawns /\ weapon[e].ammo = 0
          /\ system' = "panicked"
          /\ UNCHANGED <<weapon, components, velocity>>
       \/ /\ \A e \in m : step[e].spawns => weapon[e].ammo > -MaxWrapped
          /\ system' = NextSystem("shooting")
          /\ weapon' = Upd(weapon, [e \in m |-> step[e].weapon])
          /\ components' =
                UpdState("Shooting",
                         [e \in {x \in m : Has(x, "Shooting")} |-> step[e].data])
          /\ velocity' = Upd(velocity, [e \in m |-> step[e].velocity])
    /\ UNCHANGED <<transition_intents, commands, health, role, animation, facing,
                   inventory, available_attacks, items, probe,
                   script_item_grab_events>>

\* ------------------------------------------------ the deferred commands
\* a new entity id for a ground item
FreshItem(its) ==
    CHOOSE i \in 101..(101 + Cardinality(DOMAIN its)) : i \notin DOMAIN its

\* One command applied to the world `w` (the state components, the weapon
\* children, the ground items and the despawned fighters).  A command for an
\* entity that no longer exists does nothing.
ApplyCommand(w, c) ==
    CASE c.cmd = "remove" ->
            IF c.entity \in w.despawned THEN w
            ELSE [w EXCEPT !.components[c.entity] = Without(@, c.component)]
      [] c.cmd = "insert" ->
            IF c.entity \in w.despawned THEN w
            ELSE [w EXCEPT !.components[c.entity] = WithEntry(@, c.component, c.data)]
      [] c.cmd = "spawn_attack" -> w
      [] c.cmd = "despawn_recursive" ->
            [w EXCEPT !.despawned = @ \cup {c.entity}]
      [] c.cmd \in {"despawn_item", "hold_item"} ->
            [w EXCEPT !.items = Without(@, c.item)]
      [] c.cmd = "spawn_item" ->
            [w EXCEPT !.items = WithEntry(@, FreshItem(w.items), c.kind)]
      [] c.cmd = "spawn_weapon" ->
            IF c.entity \in w.despawned THEN w
            ELSE [w EXCEPT !.weapon[c.entity] = c.weapon]
      [] c.cmd = "despawn_weapon" ->
            IF c.entity \in w.despawned THEN w
            ELSE [w EXCEPT !.weapon[c.entity] = NoWeapon]

RECURSIVE ApplyCommands(_, _)
ApplyCommands(w, cmds) ==
    IF cmds = <<>> THEN w
    ELSE ApplyCommands(ApplyCommand(w, Head(cmds)), Tail(cmds))

\* a per-entity map without the despawned entities
Alive(f, despawned) == [e \in DOMAIN f \ despawned |-> f[e]]

\* the end of a stage: the commands queued by its systems are applied in order
StageEnd(sys) ==
    /\ LET w == ApplyCommands([components |-> components, weapon |-> weapon,
                               items |-> items, despawned |-> {}], commands)
           gone == w.despawned
       IN  /\ components' = Alive(w.components, gone)
           /\ weapon' = Alive(w.weapon, gone)
           /\ items' = w.items
           /\ transition_intents' = Alive(transition_intents, gone)
           /\ health' = Alive(health, gone)
           /\ role' = Alive(role, gone)
           /\ animation' = Alive(animation, gone)
           /\ facing' = Alive(facing, gone)
           /\ velocity' = Alive(velocity, gone)
           /\ inventory' = Alive(inventory, gone)
           /\ available_attacks' = Alive(available_attacks, gone)
           /\ system' = NextSystemIn(sys, Alive(w.components, gone), Alive(w.weapon, gone))
    /\ commands' = <<>>
    /\ UNCHANGED <<probe, script_item_grab_events>>

pre_update_end ==
    /\ system = "pre_update_end"
    /\ StageEnd("pre_update_end")

update_end ==
    /\ system = "update_end"
    /\ StageEnd("update_end")

\* ------------------------------------------------------ the rest of a frame
\* The collaborators that run between two passes of the fighter state systems:
\* the animation system moves the playheads, and the damage system lowers the
\* health of fighters that are hit (a fighter without health is hit no more).
Damages(h) == IF h > 0 THEN 0..(h + 1) ELSE {0}

\* A clip may stay where it is for a frame of the game only while the queue of
\* the fighter has room for the intents of one more frame: the queue of a Dying
\* fighter is read no more, and this is what keeps it within MaxQueue.
MayStall(e) == Len(transition_intents[e]) + 1 < MaxQueue

AnimateFighter(e) ==
    IF MayStall(e) THEN Animate(animation[e]) ELSE Animate(animation[e]) \ {animation[e]}

AnimateWeapon(w) ==
    IF w = NoWeapon THEN {w}
    ELSE {[w EXCEPT !.animation = a] : a \in Animate(w.animation)}

frame_end ==
    /\ system = "frame_end"
    /\ system' = NextSystem("frame_end")
    /\ \E anim \in [Fighters -> UNION {Animate(animation[e]) : e \in Fighters}] :
          /\ \A e \in Fighters : anim[e] \in AnimateFighter(e)
          /\ animation' = anim
    /\ \E wpn \in [Fighters -> UNION {AnimateWeapon(weapon[e]) : e \in Fighters}] :
          /\ \A e \in Fighters : wpn[e] \in AnimateWeapon(weapon[e])
          /\ weapon' = wpn
    /\ \E damage \in [Fighters -> 0..(MaxHealth + 1)] :
          /\ \A e \in Fighters : damage[e] \in Damages(health[e])
          /\ health' = [e \in Fighters |-> health[e] - damage[e]]
    /\ UNCHANGED <<components, transition_intents, commands, role, facing, velocity,
                   inventory, available_attacks, items, probe,
                   script_item_grab_events>>

\* ------------------------------------------------------------ the game
\* One fighter, spawned Idling with full health and an empty queue: a player with
\* the chain attack and an item of any kind on the ground, a player with another
\* base attack, an enemy, or a boss.
Spawn(r, attack, its) ==
    /\ system = Schedule[1]
    /\ components = (1 :> ("Idling" :> NoData))
    /\ transition_intents = (1 :> <<>>)
    /\ commands = <<>>
    /\ health = (1 :> MaxHealth)
    /\ role = (1 :> r)
    /\ animation = (1 :> NoAnimation)
    /\ facing = (1 :> Right)
    /\ velocity = (1 :> ZERO)
    /\ inventory = (1 :> "none")
    /\ available_attacks = (1 :> <<attack>>)
    /\ weapon = (1 :> NoWeapon)
    /\ items = its
    /\ probe = NoProbe
    /\ script_item_grab_events = <<>>

Init ==
    \/ \E kind \in ItemKinds : Spawn("player", "chain", (101 :> kind))
    \/ \E attack \in {"punch", "flop"} : Spawn("player", attack, (101 :> "Throwable"))
    \/ Spawn("enemy", "punch", <<>>)
    \/ Spawn("boss", "ground_slam", <<>>)

Next ==
    \/ collect_fighter_eliminations
    \/ collect_hitstuns
    \/ collect_player_actions
    \/ emit_enemy_intents
    \/ transition_from_idle
    \/ transition_from_chain
    \/ transition_from_flopping
    \/ transition_from_punching
    \/ transition_from_ground_slam
    \/ transition_from_hitstun
    \/ transition_from_melee_attacking
    \/ transition_from_shooting
    \/ transition_from_bomb_throw
    \/ transition_from_proj_attacking
    \/ pre_update_end
    \/ idling
    \/ chaining
    \/ flopping
    \/ punching
    \/ ground_slam
    \/ moving
    \/ throwing
    \/ grabbing
    \/ hitstun
    \/ dying
    \/ melee_attacking
    \/ shooting
    \/ bomb_throw
    \/ projectile_attacking
    \/ update_end
    \/ frame_end

Spec == Init /\ [][Next]_vars

\* The systems that run for a fighter that is Dying: the collectors, the handlers
\* of Dying, of the additive states and of a weapon that is held, and the ends
\* of the stages and of the frame.  The schedule keeps running them.
DyingSystems ==
    \/ collect_fighter_eliminations
    \/ collect_hitstuns
    \/ collect_player_actions
    \/ emit_enemy_intents
    \/ pre_update_end
    \/ throwing
    \/ grabbing
    \/ dying
    \/ shooting
    \/ update_end
    \/ frame_end

LiveSpec == Init /\ [][Next]_vars /\ WF_vars(DyingSystems)

\* The whole schedule keeps running.  The handlers, the collectors and the ends
\* of the stages are taken when it is their turn; the turn of a transition
\* system passes as well, which is stated on the position in the schedule.
TransitionSystems ==
    {Schedule[i] : i \in IndexOf("transition_from_idle")..(IndexOf("pre_update_end") - 1)}

HandlerSystems ==
    \/ DyingSystems
    \/ idling
    \/ chaining
    \/ flopping
    \/ punching
    \/ ground_slam
    \/ moving
    \/ hitstun
    \/ melee_attacking
    \/ bomb_throw
    \/ projectile_attacking

FairSpec ==
    /\ Init /\ [][Next]_vars
    /\ WF_vars(HandlerSystems)
    /\ []<>(system \notin TransitionSystems)

\* The animation system keeps the clips going: again and again a frame of the
\* game moves every clip that is neither finished nor looping, of the fighters
\* and of their weapons.
ClipsAdvance ==
    /\ frame_end
    /\ \A e \in Fighters :
          /\ Animate(animation[e]) # {animation[e]} => animation'[e] # animation[e]
          /\ AnimateWeapon(weapon[e]) # {weapon[e]} => weapon'[e] # weapon[e]

\* the fighters that get into the attack states that end with is_finished: a
\* player next to a weapon, an enemy, or a boss
AttackInit ==
    \/ \E kind \in {"MeleeWeapon", "ProjectileWeapon"} :
          Spawn("player", "chain", (101 :> kind))
    \/ Spawn("enemy", "punch", <<>>)
    \/ Spawn("boss", "ground_slam", <<>>)

AnimSpec ==
    /\ AttackInit /\ [][Next]_vars
    /\ WF_vars(HandlerSystems)
    /\ []<>(system \notin TransitionSystems)
    /\ SF_vars(ClipsAdvance)

\* ------------------------------------------------ single calls, on their own
\* One call of the resolver, and one run of collect_hitstuns, on inputs drawn
\* from bounded sets: a fighter (entity 1) in one state with a queue of pending
\* intents, or a list of damage events for the fighter and for an entity that is
\* no fighter (entity 2).
ProbeStates ==
    {"Idling", "Chaining", "Flopping", "Punching", "GroundSlam", "HitStun",
     "MeleeAttacking", "Shooting", "BossBombThrow", "ProjectileAttacking"}

ProbeIntents ==
    {StateTransition("Moving", [velocity |-> <<1, 0>>], Moving_PRIORITY, FALSE),
     StateTransition("Throwing", NoData, Throwing_PRIORITY, TRUE),
     StateTransition("Punching", AttackDefault, Punching_PRIORITY, FALSE),
     StateTransition("Holding", NoData, Holding_PRIORITY, TRUE),
     StateTransition("HitStun",
                     [pushback |-> <<-1, 0>>, timer |-> TimerFromSeconds(LongHitstun)],
                     HitStun_PRIORITY, FALSE),
     StateTransition("HitStun",
                     [pushback |-> <<0, 0>>, timer |-> TimerFromSeconds(LongHitstun)],
                     HitStun_PRIORITY, FALSE),
     StateTransition("Dying", NoData, Dying_PRIORITY, FALSE)}

\* the queue of the example: priorities 10, 25, 40 and 5, for a state of priority 20
ExampleQueue ==
    <<StateTransition("Moving", [velocity |-> <<1, 0>>], 10, FALSE),
      StateTransition("Punching", AttackDefault, 25, FALSE),
      StateTransition("HitStun",
                      [pushback |-> <<-1, 0>>, timer |-> TimerFromSeconds(LongHitstun)],
                      40, FALSE),
      StateTransition("Idling", NoData, 5, FALSE)>>

\* the data of the state the fighter of a resolver call is in
ProbeData == [current |-> TRUE]

ProbeWorld(state, queue) ==
    /\ system = "probe"
    /\ components = (1 :> (state :> ProbeData))
    /\ transition_intents = (1 :> queue)
    /\ commands = <<>>
    /\ health = (1 :> MaxHealth)
    /\ role = (1 :> "player")
    /\ animation = (1 :> NoAnimation)
    /\ facing = (1 :> Right)
    /\ velocity = (1 :> ZERO)
    /\ inventory = (1 :> "none")
    /\ available_attacks = (1 :> <<"punch">>)
    /\ weapon = (1 :> NoWeapon)
    /\ items = <<>>
    /\ script_item_grab_events = <<>>

ProbeInit ==
    \/ \E state \in ProbeStates, pending \in SeqsUpTo(ProbeIntents, MaxProbeLen) :
          /\ ProbeWorld(state, pending)
          /\ probe = [op |-> "resolve", current_state |-> state,
                      current_state_priority |-> Priority(state), pending |-> pending]
    \/ /\ ProbeWorld("Flopping", ExampleQueue)
       /\ probe = [op |-> "resolve", current_state |-> "Flopping",
                   current_state_priority |-> 20, pending |-> ExampleQueue]
    \/ \E events \in SeqsUpTo(DamageEventsOf({1, 2}), MaxProbeEvents),
          pending \in SeqsUpTo(ProbeIntents, 1) :
          /\ ProbeWorld("Idling", pending)
          /\ probe = [op |-> "hitstuns", events |-> events, pending |-> pending]

\* transition_to_higher_priority_states::<current_state> for the fighter, and
\* the commands it queued applied as at the end of the stage
ProbeResolve ==
    /\ system = "probe"
    /\ probe.op = "resolve"
    /\ LET r == TransitionToHigherPriorityStates(transition_intents[1],
                                                 probe.current_state,
                                                 probe.current_state_priority, 1)
           w == ApplyCommands([components |-> components, weapon |-> weapon,
                               items |-> items, despawned |-> {}], r.commands)
       IN  /\ transition_intents' = [transition_intents EXCEPT ![1] = r.queue]
           /\ components' = w.components
           /\ probe' = [op |-> "resolved", current_state |-> probe.current_state,
                        current_state_priority |-> probe.current_state_priority,
                        pending |-> probe.pending, applied |-> r.applied,
                        removed |-> r.removed]
    /\ system' = "probed"
    /\ UNCHANGED <<commands, health, role, animation, facing, velocity, inventory,
                   available_attacks, weapon, items, script_item_grab_events>>

\* collect_hitstuns on the events of the probe
ProbeHitstuns ==
    /\ system = "probe"
    /\ probe.op = "hitstuns"
    /\ transition_intents' = HitstunLoop(probe.events, transition_intents)
    /\ probe' = [op |-> "collected", events |-> probe.events, pending |-> probe.pending]
    /\ system' = "probed"
    /\ UNCHANGED <<components, commands, health, role, animation, facing, velocity,
                   inventory, available_attacks, weapon, items, script_item_grab_events>>

ProbeNext ==
    \/ ProbeResolve
    \/ ProbeHitstuns

ProbeSpec == ProbeInit /\ [][ProbeNext]_vars

\* ------------------------------------------------ one pass of grabbing
\* One pass of the grabbing handler over several players that are Grabbing
\* with an empty inventory, as collect_player_actions leaves them, followed by
\* the end of the stage.  The positions are given as the ground items within
\* pickup radius of each fighter.
MaxGrabbers == 3

MaxGroundItems == 2

GrabWorld(fighters, its) ==
    /\ system = "grabbing"
    /\ components = [e \in fighters |-> ("Idling" :> NoData) @@ ("Grabbing" :> NoData)]
    /\ transition_intents = [e \in fighters |-> <<>>]
    /\ commands = <<>>
    /\ health = [e \in fighters |-> MaxHealth]
    /\ role = [e \in fighters |-> "player"]
    /\ animation = [e \in fighters |-> Play("idle", TRUE)]
    /\ facing = [e \in fighters |-> Right]
    /\ velocity = [e \in fighters |-> ZERO]
    /\ inventory = [e \in fighters |-> "none"]
    /\ available_attacks = [e \in fighters |-> <<"punch">>]
    /\ weapon = [e \in fighters |-> NoWeapon]
    /\ items = its
    /\ script_item_grab_events = <<>>

GrabInit ==
    \E n \in 2..MaxGrabbers, k \in 1..MaxGroundItems :
       \E its \in [101..(100 + k) -> ItemKinds] :
          \E near \in [1..n -> SUBSET DOMAIN its] :
             /\ GrabWorld(1..n, its)
             /\ probe = [op |-> "grab", near |-> near]

ProbeGrabbing ==
    /\ probe # NoProbe
    /\ probe.op = "grab"
    /\ GrabAll(probe.near)

GrabNext ==
    \/ ProbeGrabbing
    \/ update_end

GrabSpec == GrabInit /\ [][GrabNext]_vars

\* ------------------------------------- one run of collect_player_actions
\* One run of collect_player_actions for one player (entity 1) on an input, a
\* state, an inventory and an attack list drawn from bounded sets.  The player
\* is Idling, in an attack state (a chain at any point of its course) or in
\* HitStun, holds a box or a bomb over its head or not, and has the attack of
\* the weapon it carries on top of its base attack; its queue is empty or
\* holds the HitStun intent collect_hitstuns has just pushed.
BaseAttacks == {"chain", "punch", "flop", "ground_slam"}

Carried == {"none", "Throwable", "BreakableBox", "Bomb", "MeleeWeapon", "ProjectileWeapon"}

AttacksWith(base, inv) ==
    IF inv \in {"MeleeWeapon", "ProjectileWeapon"}
    THEN <<base, WeaponAttack(inv)>> ELSE <<base>>

ChainingStates ==
    {d \in [has_started : BOOLEAN, continue_chain : BOOLEAN, can_extend : BOOLEAN,
            transition_to_final : BOOLEAN, transition_to_idle : {FALSE},
            link : 0..Chaining_LENGTH] :
        /\ d.transition_to_final <=> d.link = Chaining_LENGTH
        /\ ~d.has_started => d = ChainingDefault}

CollectStates ==
    {("Idling" :> NoData), ("Punching" :> AttackDefault),
     ("HitStun" :> [pushback |-> ZERO, timer |-> TimerFromSeconds(LongHitstun)])}
    \cup {("Chaining" :> d) : d \in ChainingStates}

CollectWorld(state, inv, attacks, pending) ==
    /\ system = "collect_player_actions"
    /\ components = (1 :> state)
    /\ transition_intents = (1 :> pending)
    /\ commands = <<>>
    /\ health = (1 :> MaxHealth)
    /\ role = (1 :> "player")
    /\ animation = (1 :> Play("idle", TRUE))
    /\ facing = (1 :> Right)
    /\ velocity = (1 :> ZERO)
    /\ inventory = (1 :> inv)
    /\ available_attacks = (1 :> attacks)
    /\ weapon = (1 :> IF inv \in {"MeleeWeapon", "ProjectileWeapon"}
                      THEN NewWeapon(inv) ELSE NoWeapon)
    /\ items = <<>>
    /\ script_item_grab_events = <<>>

CollectInit ==
    \E state \in CollectStates, holding \in BOOLEAN, inv \in Carried,
       base \in BaseAttacks, input \in PlayerInputs,
       pending \in {<<>>, <<HitStunIntent([damage_velocity |-> <<-1, 0>>,
                                                hitstun_duration |-> LongHitstun])>>} :
       /\ holding => inv \in {"BreakableBox", "Bomb"}
       /\ "Chaining" \in DOMAIN state => base = "chain"
       /\ CollectWorld(IF holding THEN state @@ ("Holding" :> NoData) ELSE state,
                       inv, AttacksWith(base, inv), pending)
       /\ probe = [op |-> "collect", input |-> input, pending |-> pending,
                   state |-> state, holding |-> holding]

ProbeCollect ==
    /\ probe # NoProbe
    /\ probe.op = "collect"
    /\ CollectPlayerActions((1 :> probe.input))

CollectNext == ProbeCollect

CollectSpec == CollectInit /\ [][CollectNext]_vars

\* --------------------------------- one run of the two weapon handlers
\* One run of melee_attacking and of shooting over two players in
\* MeleeAttacking or Shooting.  Fighter 1 has no weapon, or a weapon of either
\* kind in any condition, and state data and a velocity of any value; fighter 2
\* has the weapon of its state, just picked up, and a state just entered.
Booleans == {TRUE, FALSE}

WeaponStates ==
    {"MeleeAttacking" :> d : d \in [{"has_started", "is_finished"} -> Booleans]}
    \cup {"Shooting" :> d :
             d \in [{"has_started", "is_finished", "spawned_bullet"} -> Booleans]}

WeaponClips ==
    {IdleAnimation,
     [Play("shooting", FALSE) EXCEPT !.current_frame = AttackFrames.startup],
     [Play("slashing", FALSE) EXCEPT !.finished = TRUE]}

Weapons ==
    {NoWeapon}
    \cup {[NewWeapon("MeleeWeapon") EXCEPT !.animation = a] : a \in WeaponClips}
    \cup {[NewWeapon("ProjectileWeapon") EXCEPT !.animation = a, !.ammo = n] :
             a \in WeaponClips, n \in 0..MaxAmmo}

WeaponWorld(state1, weapon1, velocity1, state2, weapon2) ==
    /\ system = "melee_attacking"
    /\ components = <<state1, state2>>
    /\ transition_intents = <<<<>>, <<>>>>
    /\ commands = <<>>
    /\ health = <<MaxHealth, MaxHealth>>
    /\ role = <<"player", "player">>
    /\ animation = <<Play("idle", TRUE), Play("idle", TRUE)>>
    /\ facing = <<Right, Right>>
    /\ velocity = <<velocity1, <<1, 0>>>>
    /\ inventory = <<weapon1.kind, weapon2.kind>>
    /\ available_attacks = <<<<"punch">>, <<"punch">>>>
    /\ weapon = <<weapon1, weapon2>>
    /\ items = <<>>
    /\ probe = NoProbe
    /\ script_item_grab_events = <<>>

WeaponInit ==
    \E state1 \in WeaponStates, weapon1 \in Weapons, velocity1 \in {ZERO, <<1, 0>>} :
       \/ WeaponWorld(state1, weapon1, velocity1,
                       "MeleeAttacking" :> AttackDefault, NewWeapon("MeleeWeapon"))
       \/ WeaponWorld(state1, weapon1, velocity1,
                       "Shooting" :> ShootingDefault, NewWeapon("ProjectileWeapon"))

WeaponNext ==
    \/ melee_attacking
    \/ shooting
    \/ update_end

WeaponSpec == WeaponInit /\ [][WeaponNext]_vars

\* ------------------------- one run of throwing and grabbing, any inventory
\* One run of throwing and of grabbing over two players.  Player 1 is Throwing
\* or Grabbing and carries nothing or an item of any kind that can be carried;
\* player 2 is Grabbing and carries nothing or a Throwable.  A carried box or
\* bomb comes with Holding, a carried weapon with its weapon child and its
\* attack on top of the base attack.
SlotStates == {"Throwing", "Grabbing"}

CarriedBy(state, inv) ==
    ("Idling" :> NoData) @@ (state :> NoData)
    @@ (IF inv \in {"BreakableBox", "Bomb"} THEN ("Holding" :> NoData) ELSE <<>>)

WeaponOf(inv) ==
    IF inv \in {"MeleeWeapon", "ProjectileWeapon"} THEN NewWeapon(inv) ELSE NoWeapon

SlotWorld(state1, inv1, inv2, its) ==
    /\ system = (IF state1 = "Throwing" THEN "throwing" ELSE "grabbing")
    /\ components = <<CarriedBy(state1, inv1), CarriedBy("Grabbing", inv2)>>
    /\ transition_intents = <<<<>>, <<>>>>
    /\ commands = <<>>
    /\ health = <<MaxHealth, MaxHealth>>
    /\ role = <<"player", "player">>
    /\ animation = <<Play("idle", TRUE), Play("idle", TRUE)>>
    /\ facing = <<Right, Right>>
    /\ velocity = <<ZERO, ZERO>>
    /\ inventory = <<inv1, inv2>>
    /\ available_attacks = <<AttacksWith("punch", inv1), AttacksWith("punch", inv2)>>
    /\ weapon = <<WeaponOf(inv1), WeaponOf(inv2)>>
    /\ items = its
    /\ probe = NoProbe
    /\ script_item_grab_events = <<>>

SlotInit ==
    \E state1 \in SlotStates, inv1 \in Carried, inv2 \in {"none", "Throwable"},
       k \in 1..MaxGroundItems :
       \E its \in [101..(100 + k) -> ItemKinds] : SlotWorld(state1, inv1, inv2, its)

SlotNext ==
    \/ throwing
    \/ grabbing
    \/ shooting
    \/ update_end

SlotSpec == SlotInit /\ [][SlotNext]_vars

\* ------------------------------------------------------------ properties
\* the non-additive states of a fighter
NonAdditiveOf(e) == DOMAIN components[e] \cap NonAdditiveStates

\* the systems of CoreStage::Update, and the end of the stage
UpdateStage ==
    {Schedule[i] : i \in (IndexOf("pre_update_end") + 1)..IndexOf("update_end")}

\* the commands queued so far hold `c`
Queued(c) == \E i \in 1..Len(commands) : commands[i] = c

\* C1: in every state, and so at every stage boundary, every live fighter has
\* exactly one non-additive state; any other state component it has is one of
\* the additive states Holding, Throwing and Grabbing.
C1_OneNonAdditiveState ==
    \A e \in Fighters :
        /\ Cardinality(NonAdditiveOf(e)) = 1
        /\ DOMAIN components[e] \subseteq NonAdditiveStates \cup AdditiveStates

\* C1 witness: after the commands of PreUpdate were applied, a fighter that was
\* hit while it held an item is in HitStun, with Holding on top of it.
C1_Witness ==
    /\ system \in UpdateStage
    /\ commands = <<>>
    /\ \E e \in Fighters : {"HitStun", "Holding"} \subseteq DOMAIN components[e]

\* C2: one resolution leaves the non-additive state of the fighter as it was,
\* or replaces it by the state of a pending non-additive intent of strictly
\* greater priority; every intent applied, and so every state added, has a
\* priority strictly greater than the priority of the current state.
C2_PriorityMonotonicity ==
    probe.op = "resolved" =>
        LET p == probe.current_state_priority
            pending == probe.pending
        IN  /\ \A i \in 1..Len(probe.applied) : probe.applied[i].priority > p
            /\ \/ /\ NonAdditiveOf(1) = {probe.current_state}
                  /\ components[1][probe.current_state] = ProbeData
               \/ \E i \in 1..Len(pending) :
                     /\ ~pending[i].is_additive
                     /\ pending[i].priority > p
                     /\ NonAdditiveOf(1) = {pending[i].state}
                     /\ components[1][pending[i].state] = pending[i].data
            /\ \A s \in DOMAIN components[1] \ {probe.current_state} :
                  \E i \in 1..Len(pending) :
                     pending[i].state = s /\ pending[i].priority > p

\* C2 witness: a queue with an intent of the priority of the current state and a
\* non-additive intent above it was resolved, and the state was replaced.
C2_Witness ==
    /\ probe.op = "resolved"
    /\ NonAdditiveOf(1) # {probe.current_state}
    /\ \E i, j \in 1..Len(probe.pending) :
          /\ probe.pending[i].priority = probe.current_state_priority
          /\ probe.pending[j].priority > probe.current_state_priority
          /\ ~probe.pending[j].is_additive

\* C3: one resolution applies at most one non-additive intent; when a pending
\* non-additive intent has a priority above the current one, exactly one is
\* applied, it has the greatest priority among them, it is the last intent
\* applied and nothing of lower priority is applied.  The queue with priorities
\* 10, 25, 40 and 5 against priority 20 yields the swap to the priority-40 state
\* and nothing else.
C3_OneNonAdditivePerResolution ==
    probe.op = "resolved" =>
        LET p == probe.current_state_priority
            pending == probe.pending
            applied == probe.applied
            higher == {i \in 1..Len(pending) :
                          ~pending[i].is_additive /\ pending[i].priority > p}
            swaps == {i \in 1..Len(applied) : ~applied[i].is_additive}
        IN  /\ Cardinality(swaps) <= 1
            /\ higher = {} => swaps = {} /\ NonAdditiveOf(1) = {probe.current_state}
            /\ higher # {} =>
                  /\ Cardinality(swaps) = 1
                  /\ \A i \in swaps :
                        /\ i = Len(applied)
                        /\ \A j \in higher : applied[i].priority >= pending[j].priority
                        /\ \A k \in 1..Len(applied) :
                              applied[k].priority >= applied[i].priority
                        /\ NonAdditiveOf(1) = {applied[i].state}
                        /\ \A s \in DOMAIN components[1] \ {applied[i].state} :
                              \E k \in 1..Len(pending) :
                                 /\ pending[k].state = s
                                 /\ pending[k].priority >= applied[i].priority
            /\ (pending = ExampleQueue /\ p = 20) =>
                  /\ applied = <<ExampleQueue[3]>>
                  /\ DOMAIN components[1] = {"HitStun"}

\* C3 witness: the queue of the example was resolved against priority 20.
C3_Witness ==
    /\ probe.op = "resolved"
    /\ probe.pending = ExampleQueue
    /\ probe.current_state_priority = 20
    /\ NonAdditiveOf(1) = {"HitStun"}

\* C4: an additive intent above the current priority, and above every pending
\* non-additive intent that is above it too, adds its state; when no
\* non-additive intent is above the current priority the current state stays in
\* place with its data; an additive intent that was applied does not keep a
\* non-additive intent below it from being applied.  Throwing alone on Idling
\* leaves Idling and Throwing.
C4_AdditiveStacking ==
    probe.op = "resolved" =>
        LET p == probe.current_state_priority
            pending == probe.pending
            higher == {i \in 1..Len(pending) :
                          ~pending[i].is_additive /\ pending[i].priority > p}
            stacked == {i \in 1..Len(pending) :
                           /\ pending[i].is_additive
                           /\ pending[i].priority > p
                           /\ \A j \in higher : pending[i].priority > pending[j].priority}
        IN  /\ \A i \in stacked :
                  /\ pending[i].state \in DOMAIN components[1]
                  /\ components[1][pending[i].state] = pending[i].data
            /\ higher = {} =>
                  /\ probe.current_state \in DOMAIN components[1]
                  /\ components[1][probe.current_state] = ProbeData
            /\ higher # {} =>
                  /\ probe.removed
                  /\ \E j \in higher : NonAdditiveOf(1) = {pending[j].state}
            /\ (probe.current_state = "Idling"
                /\ pending = <<StateTransition("Throwing", NoData, 15, TRUE)>>) =>
                  DOMAIN components[1] = {"Idling", "Throwing"}

\* C4 witness: Throwing alone was resolved on a fighter in Idling, and the
\* fighter has both.
C4_Witness ==
    /\ probe.op = "resolved"
    /\ probe.current_state = "Idling"
    /\ probe.pending = <<StateTransition("Throwing", NoData, 15, TRUE)>>
    /\ probe.applied = probe.pending
    /\ DOMAIN components[1] = {"Idling", "Throwing"}

\* C5 as stated: when the transition systems of a tick have run, the queue of
\* every fighter is empty.
C5_QueueDrainedEveryTick ==
    system = "pre_update_end" => \A e \in Fighters : transition_intents[e] = <<>>

\* C6 as stated: at the end of a tick no queue holds an intent, so that none
\* is left for the next tick.
C6_NoIntentAcrossTicks ==
    system = "frame_end" => \A e \in Fighters : transition_intents[e] = <<>>

\* C7: after the resolution of a tick, and until the end of the tick, a fighter
\* whose health is zero or less (as it was when collect_fighter_eliminations
\* ran in this tick) has Dying as its non-additive state.
C7_DyingAlwaysWins ==
    system \in UpdateStage \cup {"frame_end"} =>
        \A e \in Fighters : health[e] <= 0 => NonAdditiveOf(e) = {"Dying"}

\* C7 witness: a fighter without health that is in HitStun, the state of the
\* greatest priority below Dying, has the swap to Dying queued by the resolver.
C7_Witness ==
    /\ system = "pre_update_end"
    /\ \E e \in Fighters :
          /\ health[e] <= 0
          /\ Has(e, "HitStun")
          /\ Queued([cmd |-> "remove", entity |-> e, component |-> "HitStun"])
          /\ Queued([cmd |-> "insert", entity |-> e, component |-> "Dying",
                     data |-> NoData])

\* C8: no step takes a fighter that is Dying to another non-additive state: after
\* the step the fighter is Dying still, or it is despawned.
C8_DyingIsTerminal ==
    [][\A e \in Fighters :
          Has(e, "Dying") =>
             \/ e \notin DOMAIN components'
             \/ DOMAIN components'[e] \cap NonAdditiveStates = {"Dying"}]_vars

\* C8 witness: a Dying fighter whose queue has taken intents in two ticks, at
\* the end of the second one.
C8_Witness ==
    /\ system = "frame_end"
    /\ \E e \in Fighters : Has(e, "Dying") /\ Len(transition_intents[e]) >= 2

\* the fighter of the game is Dying
IsDying == 1 \in Fighters /\ Has(1, "Dying")

\* C9: a fighter that is Dying is despawned in the end; once the dying handler
\* has run the animation "dying" plays, and it is never started again; and the
\* fighter is despawned only when that animation is finished.
C9_DyingEventuallyDespawned ==
    /\ IsDying ~> (1 \notin Fighters)
    /\ [](IsDying /\ system \in {"update_end", "frame_end"} =>
             animation[1].current_animation = "dying")
    /\ [][(1 \in Fighters /\ animation[1].current_animation = "dying") =>
             \/ 1 \notin DOMAIN animation'
             \/ /\ animation'[1].current_animation = "dying"
                /\ animation'[1] # animation[1] => animation'[1].finished]_vars
    /\ [][(IsDying /\ 1 \notin DOMAIN components') =>
             animation[1].current_animation = "dying" /\ animation[1].finished]_vars

\* C9 witness: the dying animation of a Dying fighter is finished, and the
\* despawn is queued.
C9_Witness ==
    /\ system = "update_end"
    /\ IsDying
    /\ animation[1].current_animation = "dying"
    /\ animation[1].finished
    /\ Queued([cmd |-> "despawn_recursive", entity |-> 1])

\* C10: collect_hitstuns leaves the queue of the fighter as it was but for one
\* HitStun intent, pushed at the back, for every event that is for the fighter
\* and has a duration other than zero, in the order of the events: non-additive,
\* of priority 40, with the knockback and the duration of the event.
C10_HitstunIntents ==
    probe.op = "collected" =>
        LET Hits(event) == event.damaged_entity = 1 /\ event.hitstun_duration # 0
            hits == SelectSeq(probe.events, Hits)
            queue == transition_intents[1]
            before == Len(probe.pending)
        IN  /\ Len(queue) = before + Len(hits)
            /\ SubSeq(queue, 1, before) = probe.pending
            /\ \A i \in 1..Len(hits) :
                  LET intent == queue[before + i] IN
                  /\ intent.state = "HitStun"
                  /\ intent.priority = 40
                  /\ ~intent.is_additive
                  /\ intent.data.pushback = hits[i].damage_velocity
                  /\ intent.data.timer.duration = hits[i].hitstun_duration
                  /\ intent.data.timer.elapsed = 0
                  /\ ~intent.data.timer.finished

\* C10 witness: an event of duration zero and an event of another duration, both
\* for the fighter, were collected on a queue that held an intent already.
C10_Witness ==
    /\ probe.op = "collected"
    /\ Len(probe.events) = 2
    /\ probe.events[1].damaged_entity = 1
    /\ probe.events[1].hitstun_duration = 0
    /\ probe.events[2].damaged_entity = 1
    /\ probe.events[2].hitstun_duration # 0
    /\ Len(probe.pending) = 1
    /\ Len(transition_intents[1]) = 2

\* the queue of fighter e holds an intent for `state`
Pending(e, state) ==
    \E i \in 1..Len(transition_intents[e]) : transition_intents[e][i].state = state

\* the queue of fighter e holds a non-additive intent of a priority above p
PendingAbove(e, p) ==
    \E i \in 1..Len(transition_intents[e]) :
        /\ ~transition_intents[e][i].is_additive
        /\ transition_intents[e][i].priority > p

\* C11 (amended): Moving is on a fighter only during the Update stage of the
\* tick it was applied in: the end of that stage takes it off and leaves the
\* fighter in Idling.  In the next tick the fighter stays in Idling through the
\* resolution when its queue holds no non-additive intent above priority 0, and
\* no handler takes Idling off.
C11_MovingNeedsInput ==
    [][/\ \A e \in Fighters : Has(e, "Moving") => system \in UpdateStage
       /\ system = "update_end" =>
             \A e \in Fighters \cap DOMAIN components' :
                Has(e, "Moving") =>
                   DOMAIN components'[e] \cap NonAdditiveStates = {"Idling"}
       /\ system = "transition_from_idle" =>
             \A e \in With("Idling") :
                ~PendingAbove(e, Idling_PRIORITY) =>
                   ~\E i \in 1..Len(commands') :
                       commands'[i] = [cmd |-> "remove", entity |-> e,
                                       component |-> "Idling"]
       /\ system \in UpdateStage =>
             \A e \in With("Idling") \cap DOMAIN components' :
                "Idling" \in DOMAIN components'[e]]_vars

\* C11 as stated: a fighter that is back in Idling from Moving (its animation
\* is still "running") and has no Moving intent in its queue is left in Idling
\* by the resolution of the tick.
C11_IdlingWithoutMovingIntent ==
    [][system = "transition_from_idle" =>
          \A e \in With("Idling") :
             (animation[e].current_animation = "running" /\ ~Pending(e, "Moving")) =>
                ~\E i \in 1..Len(commands') :
                    commands'[i] = [cmd |-> "remove", entity |-> e,
                                    component |-> "Idling"]]_vars

\* C11 witness: the moving handler has run for a fighter in Moving, and the
\* swap back to Idling is queued.
C11_Witness ==
    /\ system = "update_end"
    /\ \E e \in Fighters :
          /\ Has(e, "Moving")
          /\ Queued([cmd |-> "remove", entity |-> e, component |-> "Moving"])
          /\ Queued([cmd |-> "insert", entity |-> e, component |-> "Idling",
                     data |-> NoData])

\* C12: a Chaining component never has link above Chaining::LENGTH; a link
\* count of LENGTH comes with transition_to_final, which is set by nothing
\* else; and a Chaining component that asks for the final transition is on
\* its fighter only until the next resolution, so that a continue request
\* made after it is never honoured by the handler.
C12_ChainTerminates ==
    \A e \in With("Chaining") :
       LET chain == components[e]["Chaining"] IN
       /\ chain.link <= Chaining_LENGTH
       /\ chain.transition_to_final <=> chain.link = Chaining_LENGTH
       /\ (chain.transition_to_final /\ chain.continue_chain) => system \notin UpdateStage

\* C12 witness: a chain that has reached its second link, asks for the final
\* transition and has received one more continue request.
C12_Witness ==
    \E e \in With("Chaining") :
       /\ components[e]["Chaining"].link = Chaining_LENGTH
       /\ components[e]["Chaining"].transition_to_final
       /\ components[e]["Chaining"].continue_chain

\* the deferred commands that take ground item `i` off the ground
Removals(i) ==
    {n \in 1..Len(commands) :
        commands[n].cmd \in {"despawn_item", "hold_item"} /\ commands[n].item = i}

\* the fighters that have claimed ground item `i` of kind `kind`: it is in their
\* inventory, or their grab event was sent
Claimers(kind) ==
    {e \in Fighters :
        \/ inventory[e] = kind
        \/ \E n \in 1..Len(script_item_grab_events) :
              script_item_grab_events[n].fighter = e}

\* all the fighters of one pass of grabbing are within pickup radius of the
\* single ground item, which is of one of the `kinds`, and the pass is over
OnePassOverOneItem(kinds) ==
    /\ probe # NoProbe
    /\ probe.op = "grab"
    /\ system = "update_end"
    /\ Cardinality(DOMAIN items) = 1
    /\ \A i \in DOMAIN items : items[i] \in kinds
    /\ \A e \in DOMAIN probe.near : probe.near[e] = DOMAIN items

\* exactly one fighter has claimed the item, and it is taken off the ground once
ClaimedOnce ==
    \A i \in DOMAIN items :
       /\ Cardinality(Claimers(items[i])) = 1
       /\ Cardinality(Removals(i)) = 1

\* C13: when all the fighters of one pass of grabbing (two or more) are within
\* pickup radius of the same single ground item, of any kind, exactly one of
\* them claims it and it is removed or re-parented exactly once.
C13_GrabDeduplication == OnePassOverOneItem(ItemKinds) => ClaimedOnce

\* C13 for the kinds that are recorded in picked_item_ids: all but Script.
C13_GrabDeduplicationButScript ==
    OnePassOverOneItem(ItemKinds \ {"Script"}) => ClaimedOnce

\* C13 witness: three fighters next to one Throwable item, one of which took it.
C13_Witness ==
    /\ OnePassOverOneItem({"Throwable"})
    /\ Cardinality(Fighters) = MaxGrabbers
    /\ Cardinality(Claimers("Throwable")) = 1

\* C14: Throwing and Grabbing are on a fighter only during the Update stage of
\* the tick in which they were applied, and by the end of that stage their
\* handler has run and has queued their removal, whatever the inventory and
\* the items in range.
C14_InstantStates ==
    \A e \in Fighters : \A state \in {"Throwing", "Grabbing"} :
       Has(e, state) =>
          /\ system \in UpdateStage
          /\ system = "update_end" => Queued(Remove(e, state))

\* C14 witness: at the end of the Update stage, a fighter that threw the weapon
\* it held, and has Throwing still on it with its removal queued.
C14_Witness ==
    /\ system = "update_end"
    /\ \E e \in With("Throwing") :
          /\ inventory[e] = "none"
          /\ Queued([cmd |-> "spawn_item", kind |-> "ProjectileWeapon"])
          /\ Queued(Remove(e, "Throwing"))

\* the shooting handler spawns a bullet for fighter `e` in this step: it takes
\* one round of ammunition from the weapon
Fires(e) ==
    /\ system = "shooting"
    /\ e \in Matches("shooting")
    /\ e \in DOMAIN weapon'
    /\ weapon'[e].kind = "ProjectileWeapon"
    /\ weapon'[e].ammo # weapon[e].ammo

\* C15: the shooting handler spawns a bullet only for a fighter that is
\* Shooting, in an activation that has not spawned one yet and that has
\* started: one that found ammo > 0 and the shoot delay finished.
C15_ShootingGated ==
    [][\A e \in Fighters :
          Fires(e) =>
             /\ Has(e, "Shooting")
             /\ ~components[e]["Shooting"].spawned_bullet
             /\ components'[e]["Shooting"].spawned_bullet
             /\ components'[e]["Shooting"].has_started
             /\ weapon[e].ammo > 0]_vars

\* C15 without the gate: a bullet is spawned only for a fighter that is
\* Shooting, and at most once in an activation.
C15_OneBulletPerActivation ==
    [][\A e \in Fighters :
          Fires(e) =>
             /\ Has(e, "Shooting")
             /\ ~components[e]["Shooting"].spawned_bullet
             /\ components'[e]["Shooting"].spawned_bullet]_vars

\* the positions in the queue of fighter `e` of the non-additive intents of a
\* priority above `p`
Interrupting(e, p) ==
    {i \in 1..Len(transition_intents[e]) :
        ~transition_intents[e][i].is_additive /\ transition_intents[e][i].priority > p}

\* ... and the one of them that wins: the first of those of the highest priority
Winner(e, p) ==
    LET q == transition_intents[e]
    IN  q[CHOOSE i \in Interrupting(e, p) :
             \A j \in Interrupting(e, p) :
                q[j].priority < q[i].priority \/ (q[j].priority = q[i].priority /\ i <= j)]

\* the positions in `commands` of the inserts of a non-additive state on `e`
Replacements(e) ==
    {n \in 1..Len(commands) :
        /\ commands[n].cmd = "insert"
        /\ commands[n].entity = e
        /\ commands[n].component \in NonAdditiveStates}

\* C16: when the queue of a fighter holds, at the resolution of tick N, a
\* non-additive intent of a priority above that of its current state, the
\* resolution queues the removal of the current state and the insertion of the
\* state of the winning intent, and nothing after them for that fighter; the
\* end of PreUpdate applies them, so that during the Update stage of tick N the
\* old component is gone and the new one is on the fighter, with the data of
\* the intent.
C16_ImmediateInterruption ==
    [][\A e \in Fighters :
          /\ (/\ system \in DOMAIN QueryState
              /\ IndexOf(system) < IndexOf("pre_update_end")
              /\ e \in Matches(system)
              /\ Interrupting(e, Priority(QueryState[system])) # {})
             => LET w == Winner(e, Priority(QueryState[system]))
                    n == Len(commands')
                IN  /\ n >= 2
                    /\ commands'[n - 1] = Remove(e, QueryState[system])
                    /\ commands'[n] = [cmd |-> "insert", entity |-> e,
                                       component |-> w.state, data |-> w.data]
                    /\ w.state # QueryState[system]
          /\ (system = "pre_update_end" /\ Replacements(e) # {})
             => LET last == commands[CHOOSE n \in Replacements(e) :
                                        \A m \in Replacements(e) : m <= n]
                IN  /\ e \in DOMAIN components'
                    /\ DOMAIN components'[e] \cap NonAdditiveStates = {last.component}
                    /\ components'[e][last.component] = last.data
                    /\ system' \in UpdateStage]_vars

\* C16 witness: the end of PreUpdate of a tick in which a HitStun intent
\* interrupts a fighter that is Punching.
C16_Witness ==
    /\ system = "pre_update_end"
    /\ \E e \in With("Punching") :
          /\ Queued(Remove(e, "Punching"))
          /\ \E n \in Replacements(e) : commands[n].component = "HitStun"

\* the priority-30 attack states, and HitStun
Interruptible ==
    {state \in NonAdditiveStates : Priority(state) = Punching_PRIORITY} \cup {"HitStun"}

\* the commands queued by the step
NewCommands == SubSeq(commands', Len(commands) + 1, Len(commands'))

\* a command that takes state `state` from fighter `e`, or puts a new one on it
Touches(c, e, state) ==
    /\ c.cmd \in {"remove", "insert"}
    /\ c.entity = e
    /\ c.component = state

\* the fields of a state component have not gone back to those of a new one
NotReset(old, new) ==
    /\ DOMAIN new = DOMAIN old
    /\ "has_started" \in DOMAIN old => (old.has_started => new.has_started)
    /\ "link" \in DOMAIN old => new.link >= old.link
    /\ "pushback" \in DOMAIN old => new.pushback = old.pushback
    /\ "timer" \in DOMAIN old =>
          /\ new.timer.duration = old.timer.duration
          /\ new.timer.elapsed >= old.timer.elapsed

\* C17: a fighter in a priority-30 attack state or in HitStun keeps the state
\* component through every step of a tick, with fields that are not reset,
\* unless its own finish condition held at the resolution or a non-additive
\* intent of a strictly higher priority was in its queue: the resolution then
\* queues nothing for it but inserts of additive states, no handler queues a
\* command on the state, and the ends of the stages leave it in place.
C17_OnlyHigherPriorityInterrupts ==
    [][\A e \in Fighters : \A state \in Interruptible \cap DOMAIN components[e] :
          /\ (/\ system \in DOMAIN QueryState
              /\ IndexOf(system) < IndexOf("pre_update_end")
              /\ QueryState[system] = state
              /\ ExitCommands(state, components[e][state], e) = <<>>
              /\ Interrupting(e, Priority(state)) = {})
             => \A n \in 1..Len(NewCommands) :
                   NewCommands[n].entity = e =>
                      /\ NewCommands[n].cmd = "insert"
                      /\ NewCommands[n].component \in AdditiveStates
          /\ system \in UpdateStage \ {"update_end"}
             => \A n \in 1..Len(NewCommands) : ~Touches(NewCommands[n], e, state)
          /\ (/\ system \in {"pre_update_end", "update_end"}
              /\ \A n \in 1..Len(commands) : ~Touches(commands[n], e, state))
             => /\ e \in DOMAIN components'
                /\ state \in DOMAIN components'[e]
          /\ (/\ e \in DOMAIN components'
              /\ state \in DOMAIN components'[e]
              /\ \A n \in 1..Len(commands) : ~Touches(commands[n], e, state))
             => NotReset(components[e][state], components'[e][state])]_vars

\* C17 witness: the resolution of a tick finds a fighter in a HitStun that has
\* run for a while and is not over, with a second HitStun in its queue.
C17_Witness ==
    /\ system = "transition_from_hitstun"
    /\ \E e \in With("HitStun") :
          /\ components[e]["HitStun"].timer.elapsed > 0
          /\ ~components[e]["HitStun"].timer.finished
          /\ Pending(e, "HitStun")
          /\ Interrupting(e, HitStun_PRIORITY) = {}

\* the run of collect_player_actions on the probe's input is over
Collected == probe # NoProbe /\ probe.op = "collect" /\ system # "collect_player_actions"

\* the intents the run has pushed
Pushed == SubSeq(transition_intents[1], Len(probe.pending) + 1, Len(transition_intents[1]))

\* those of them that are for a state in `states`, or are not
PushedFor(states) ==
    LET for(t) == t.state \in states IN SelectSeq(Pushed, for)

PushedBut(states) ==
    LET but(t) == t.state \notin states IN SelectSeq(Pushed, but)

\* C18: a throw press makes the collector push exactly one intent that is
\* additive and of priority 15: Throwing when the inventory is occupied,
\* Grabbing when it is empty; without a throw press it pushes neither, and no
\* other intent it pushes is additive or of priority 15.
C18_ThrowDispatch ==
    Collected =>
       /\ PushedFor({"Throwing", "Grabbing"}) =
             (IF ~probe.input.throw THEN <<>>
              ELSE <<[state |-> IF inventory[1] # "none" THEN "Throwing" ELSE "Grabbing",
                      data |-> NoData, priority |-> 15, is_additive |-> TRUE]>>)
       /\ \A n \in 1..Len(PushedBut({"Throwing", "Grabbing"})) :
             /\ ~PushedBut({"Throwing", "Grabbing"})[n].is_additive
             /\ PushedBut({"Throwing", "Grabbing"})[n].priority # 15

\* C18 witness: a throw press with an item in the inventory has pushed Throwing.
C18_Witness ==
    /\ Collected
    /\ probe.input.throw
    /\ inventory[1] = "Bomb"
    /\ PushedFor({"Throwing"}) # <<>>

\* the state an attack press asks for, by the name of the current attack
StateOfAttack ==
    [chain |-> "Chaining", punch |-> "Punching", flop |-> "Flopping",
     melee |-> "MeleeAttacking", projectile |-> "Shooting"]

\* C19: an attack press on a player without Holding that has Chaining pushes
\* no attack intent and changes nothing but continue_chain, which it sets; on
\* a player without Holding and without Chaining it changes no component and
\* pushes exactly one attack intent, non-additive and of priority 30, for the
\* state named by the attack on top of the attack list, and none when that
\* attack has another name.
C19_AttackWhileChaining ==
    (Collected /\ probe.input.attack /\ ~probe.holding) =>
       LET name == available_attacks[1][Len(available_attacks[1])]
           attacks == PushedBut({"Throwing", "Grabbing", "Moving"})
       IN  IF "Chaining" \in DOMAIN probe.state
           THEN /\ attacks = <<>>
                /\ components[1] = [probe.state EXCEPT !["Chaining"].continue_chain = TRUE]
           ELSE /\ components[1] = probe.state
                /\ IF name \in DOMAIN StateOfAttack
                   THEN /\ Len(attacks) = 1
                        /\ attacks[1].state = StateOfAttack[name]
                        /\ attacks[1].priority = 30
                        /\ ~attacks[1].is_additive
                   ELSE attacks = <<>>

\* C19 witness: an attack press has set continue_chain on a chain that had not
\* asked to continue.
C19_Witness ==
    /\ Collected
    /\ probe.input.attack
    /\ ~probe.holding
    /\ "Chaining" \in DOMAIN probe.state
    /\ ~probe.state["Chaining"].continue_chain
    /\ components[1]["Chaining"].continue_chain

\* C20: on a player that has Holding, an attack press pushes no attack intent
\* and leaves every component, a Chaining with its continue_chain among them,
\* as it was: the collector pushes what it pushes without the attack press.
C20_NoAttackWhileHolding ==
    (Collected /\ probe.input.attack /\ probe.holding) =>
       /\ components[1] = probe.state @@ ("Holding" :> NoData)
       /\ PushedBut({"Throwing", "Grabbing", "Moving"}) = <<>>
       /\ Len(PushedFor({"Throwing", "Grabbing"})) = (IF probe.input.throw THEN 1 ELSE 0)
       /\ Len(PushedFor({"Moving"})) = (IF probe.input.move THEN 1 ELSE 0)

\* C20 witness: an attack press on a player that holds a box while a chain
\* that may be extended is under way; the chain is not asked to continue.
C20_Witness ==
    /\ Collected
    /\ probe.input.attack
    /\ probe.holding
    /\ "Chaining" \in DOMAIN probe.state
    /\ components[1]["Chaining"].can_extend
    /\ ~components[1]["Chaining"].continue_chain
    /\ Has(1, "Holding")

\* fighter `e` has Chaining before and after the step
StaysChaining(e) ==
    /\ Has(e, "Chaining")
    /\ e \in DOMAIN components'
    /\ "Chaining" \in DOMAIN components'[e]

\* C21 (amended): the collector sets continue_chain whatever can_extend says,
\* and the flag waits: it stays set on the Chaining component through every
\* step until a handler tick finds it together with can_extend.  The handler
\* starts a follow-up link exactly in the ticks in which it finds both set (and
\* the fighter has the chain attack): link goes up by one and the flag is
\* cleared.  A press made before the window opens is thus honoured by the first
\* handler tick after the one that opens it.
C21_ContinueIsBuffered ==
    [][\A e \in Fighters :
          StaysChaining(e) =>
             LET old == components[e]["Chaining"]
                 new == components'[e]["Chaining"]
                 honours == /\ system = "chaining"
                            /\ role[e] = "player"
                            /\ HasChainAttack(available_attacks[e])
                            /\ old.continue_chain
                            /\ old.can_extend
             IN  /\ honours => (new.link = old.link + 1 /\ ~new.continue_chain)
                 /\ ~honours => new.link = old.link
                 /\ (old.continue_chain /\ old.has_started /\ ~honours) => new.continue_chain]_vars

\* C21 as stated: the collector sets the continue flag of a chain only while
\* the chain is in its extendable window.
C21_ContinueOnlyInWindow ==
    [][system = "collect_player_actions" =>
          \A e \in Fighters :
             (StaysChaining(e)
                /\ ~components[e]["Chaining"].continue_chain
                /\ components'[e]["Chaining"].continue_chain)
             => components[e]["Chaining"].can_extend]_vars

\* C21 witness: the handler is about to open the window (the clip is past the
\* active frame) of a chain whose continue flag was set before the window.
C21_Witness ==
    /\ system = "chaining"
    /\ \E e \in With("Chaining") :
          /\ components[e]["Chaining"].has_started
          /\ components[e]["Chaining"].continue_chain
          /\ ~components[e]["Chaining"].can_extend
          /\ animation[e].current_frame > AttackFrames.active
          /\ ~IsFinished(animation[e])

\* the commands the step queues for fighter `e`, but for the inserts of
\* additive states
Replacing(e) ==
    LET for(c) == c.entity = e /\ ~(c.cmd = "insert" /\ c.component \in AdditiveStates)
    IN  SelectSeq(NewCommands, for)

C22_WitnessIdle ==
    /\ system = "pre_update_end"
    /\ \E e \in With("Chaining") :
          /\ components[e]["Chaining"].transition_to_idle
          /\ ~components[e]["Chaining"].transition_to_final
          /\ Queued([cmd |-> "insert", entity |-> e, component |-> "Idling",
                      data |-> NoData])

InHitStun == 1 \in Fighters /\ Has(1, "HitStun")

\* C23: a fighter in HitStun leaves it in the end (time advances by DeltaTime,
\* which is positive, on every tick).  Every handler tick advances the timer by
\* the delta, up to its duration, and sets the velocity to the stored pushback.
\* A resolution without a non-additive intent of a higher priority swaps
\* HitStun for Idling if the timer is finished and queues nothing on the state
\* if it is not; and HitStun gives way to Idling only at the end of PreUpdate,
\* with a finished timer.
C23_HitStunRunsOut ==
    /\ InHitStun ~> ~InHitStun
    /\ [][InHitStun =>
            LET h == components[1]["HitStun"] IN
            /\ system = "hitstun"
               => /\ components'[1]["HitStun"].timer = TimerTick(h.timer, DeltaTime)
                  /\ DeltaTime > 0
                  /\ h.timer.elapsed < h.timer.duration
                     => components'[1]["HitStun"].timer.elapsed > h.timer.elapsed
                  /\ components'[1]["HitStun"].timer.finished
                     <=> components'[1]["HitStun"].timer.elapsed >= h.timer.duration
                  /\ components'[1]["HitStun"].pushback = h.pushback
                  /\ velocity'[1] = h.pushback
            /\ (system = "transition_from_hitstun" /\ Interrupting(1, HitStun_PRIORITY) = {})
               => Replacing(1) =
                     (IF h.timer.finished
                      THEN <<Remove(1, "HitStun"),
                             [cmd |-> "insert", entity |-> 1, component |-> "Idling",
                              data |-> NoData]>>
                      ELSE <<>>)
            /\ (1 \in DOMAIN components' /\ "Idling" \in DOMAIN components'[1])
               => (system = "pre_update_end" /\ h.timer.finished)]_vars

\* C23 witness: the end of PreUpdate of the tick in which a HitStun whose timer
\* has finished is swapped for Idling.
C23_Witness ==
    /\ system = "pre_update_end"
    /\ InHitStun
    /\ components[1]["HitStun"].timer.finished
    /\ Queued(Remove(1, "HitStun"))
    /\ Queued([cmd |-> "insert", entity |-> 1, component |-> "Idling", data |-> NoData])

\* fighter `e` has state `state` before and after the step
StaysIn(e, state) ==
    /\ Has(e, state)
    /\ e \in DOMAIN components'
    /\ state \in DOMAIN components'[e]

\* C24: within one activation of BossBombThrow a bomb is spawned (the flag
\* `thrown` is toggled) only by the handler, on an animation that is not
\* finished: with the flag going up, at the startup frame; with the flag going
\* down, at the active frame.  The startup frame is before the active frame
\* and the frame index of the activation never goes back, whatever the number
\* of ticks a frame lasts: so the two triggers fire at most once each, in that
\* order, and an activation spawns at most two bombs.
C24_TwoBombsAtMost ==
    [][\A e \in Fighters :
          StaysIn(e, "BossBombThrow") =>
             LET old == components[e]["BossBombThrow"]
                 new == components'[e]["BossBombThrow"]
             IN  /\ AttackFrames.startup < AttackFrames.active
                 /\ (old.has_started /\ animation[e].current_animation = "bomb_throw")
                    => /\ animation'[e].current_animation = "bomb_throw"
                       /\ animation'[e].current_frame >= animation[e].current_frame
                 /\ new.thrown # old.thrown
                    => /\ system = "bomb_throw"
                       /\ ~IsFinished(animation'[e])
                       /\ animation'[e].current_frame =
                             (IF new.thrown THEN AttackFrames.startup ELSE AttackFrames.active)
                 /\ (old.has_started /\ ~old.thrown
                       /\ animation[e].current_frame >= AttackFrames.active)
                    => ~new.thrown]_vars

\* C24 witness: the second bomb of an activation has been thrown, at the active
\* frame.
C24_Witness ==
    /\ system = "update_end"
    /\ \E e \in With("BossBombThrow") :
          /\ components[e]["BossBombThrow"].has_started
          /\ ~components[e]["BossBombThrow"].thrown
          /\ animation[e].current_animation = "bomb_throw"
          /\ animation[e].current_frame = AttackFrames.active

\* the intents the run of collect_hitstuns has pushed
PushedHitstuns ==
    SubSeq(transition_intents[1], Len(probe.pending) + 1, Len(transition_intents[1]))

\* no two non-additive intents of `q` have the same priority
NoEqualPriorities(q) ==
    \A i, j \in 1..Len(q) :
       (i # j /\ ~q[i].is_additive /\ ~q[j].is_additive) => q[i].priority # q[j].priority

\* the positions in the queue of a resolver call of the non-additive intents of
\* a priority above that of the current state, and the first of those of the
\* highest priority
ProbeInterrupting ==
    {i \in 1..Len(probe.pending) :
        /\ ~probe.pending[i].is_additive
        /\ probe.pending[i].priority > probe.current_state_priority}

ProbeWinner ==
    CHOOSE i \in ProbeInterrupting :
       \A j \in ProbeInterrupting :
          \/ probe.pending[j].priority < probe.pending[i].priority
          \/ (probe.pending[j].priority = probe.pending[i].priority /\ i <= j)

FinishHolds(e, state) == ExitCommands(state, components[e][state], e) # <<>>

\* C26: in a tick in which the finish condition of the state of a fighter holds
\* and its queue holds a non-additive intent of a strictly higher priority, the
\* transition system queues for the state only the replacement (the removal of
\* the state and the insertion of the state of the winning intent) and not the
\* exit to Idling (to Flopping, for Chaining); at the end of PreUpdate the
\* fighter is in the state of the intent, and neither Idling nor the state it
\* left is on it.
C26_ExitSkippedAfterReplacement ==
    [][\A e \in Fighters :
          /\ (/\ system \in DOMAIN QueryState
              /\ IndexOf(system) < IndexOf("pre_update_end")
              /\ e \in Matches(system)
              /\ FinishHolds(e, QueryState[system])
              /\ Interrupting(e, Priority(QueryState[system])) # {})
             => LET w == Winner(e, Priority(QueryState[system]))
                IN  /\ Replacing(e) =
                          <<Remove(e, QueryState[system]),
                            [cmd |-> "insert", entity |-> e,
                             component |-> w.state, data |-> w.data]>>
                    /\ w.state \notin {"Idling", QueryState[system]}
                    /\ QueryState[system] = "Chaining" => w.state # "Flopping"
          /\ system = "pre_update_end"
             => \A state \in DOMAIN components[e] \cap NonAdditiveStates :
                \A n \in Replacements(e) :
                   (FinishHolds(e, state)
                      /\ Priority(commands[n].component) > Priority(state))
                   => /\ e \in DOMAIN components'
                      /\ DOMAIN components'[e] \cap NonAdditiveStates
                            = {commands[n].component}
                      /\ components'[e][commands[n].component] = commands[n].data]_vars

\* C26 witness: the end of PreUpdate of a tick in which a Flopping that is
\* finished is interrupted by a HitStun intent.
C26_Witness ==
    /\ system = "pre_update_end"
    /\ \E e \in With("Flopping") :
          /\ components[e]["Flopping"].is_finished
          /\ Queued(Remove(e, "Flopping"))
          /\ \E n \in Replacements(e) : commands[n].component = "HitStun"

\* the same for a HitStun whose timer has finished, interrupted by Dying
C26_WitnessHitStun ==
    /\ system = "pre_update_end"
    /\ \E e \in With("HitStun") :
          /\ components[e]["HitStun"].timer.finished
          /\ Queued(Remove(e, "HitStun"))
          /\ \E n \in Replacements(e) : commands[n].component = "Dying"

\* the attack states that end with is_finished, their transition systems and
\* their handlers
ReturningStates ==
    {"Punching", "Flopping", "GroundSlam", "BossBombThrow", "MeleeAttacking",
     "Shooting", "ProjectileAttacking"}

TransitionOf ==
    [Punching |-> "transition_from_punching", Flopping |-> "transition_from_flopping",
     GroundSlam |-> "transition_from_ground_slam",
     BossBombThrow |-> "transition_from_bomb_throw",
     MeleeAttacking |-> "transition_from_melee_attacking",
     Shooting |-> "transition_from_shooting",
     ProjectileAttacking |-> "transition_from_proj_attacking"]

HandlerOf ==
    [Punching |-> "punching", Flopping |-> "flopping", GroundSlam |-> "ground_slam",
     BossBombThrow |-> "bomb_throw", MeleeAttacking |-> "melee_attacking",
     Shooting |-> "shooting", ProjectileAttacking |-> "projectile_attacking"]

\* the animation the handler of `state` reads for fighter `e`: that of the
\* weapon for the weapon states, that of the fighter for the others
ClipOf(e, state) ==
    IF state \in {"MeleeAttacking", "Shooting"} THEN weapon[e].animation
    ELSE animation[e]

In(state) == 1 \in Fighters /\ Has(1, state)

InAttack == \E state \in ReturningStates : In(state)

\* the wrapped ammo is followed no further
AmmoAtBound ==
    \E e \in Fighters : weapon[e].kind = "ProjectileWeapon" /\ weapon[e].ammo = -MaxWrapped

\* C27: with clips that keep advancing, a fighter in Punching, Flopping,
\* GroundSlam, BossBombThrow, MeleeAttacking, Shooting or ProjectileAttacking
\* leaves that state in the end (unless the game has stopped on a panic of the
\* shooting handler, or the ammo has wrapped around MaxWrapped times), and it does not leave it for another of these states,
\* so that none of them lasts for ever.  is_finished goes up only in the handler of the state, on
\* an animation that is finished.  A resolution without a non-additive intent
\* of a higher priority swaps the state for Idling if is_finished is set and
\* queues nothing on the state if it is not; and the state gives way to Idling
\* only at the end of PreUpdate, with is_finished set.
C27_AttacksReturnToIdling ==
    /\ InAttack ~> (~InAttack \/ system = "panicked" \/ AmmoAtBound)
    /\ [][\A e \in Fighters : \A state \in DOMAIN components[e] \cap ReturningStates :
            LET data == components[e][state] IN
            /\ (StaysIn(e, state) /\ ~data.is_finished
                   /\ components'[e][state].is_finished)
               => /\ system = HandlerOf[state]
                  /\ e \in Matches(system)
                  /\ ClipOf(e, state).finished
            /\ (system = TransitionOf[state] /\ Interrupting(e, Priority(state)) = {})
               => Replacing(e) =
                     (IF data.is_finished
                      THEN <<Remove(e, state),
                             [cmd |-> "insert", entity |-> e, component |-> "Idling",
                              data |-> NoData]>>
                      ELSE <<>>)
            /\ (e \in DOMAIN components' /\ "Idling" \in DOMAIN components'[e])
               => (system = "pre_update_end" /\ data.is_finished)
            /\ (e \in DOMAIN components' /\ state \notin DOMAIN components'[e])
               => DOMAIN components'[e] \cap ReturningStates = {}]_vars

\* C27 witness: the end of PreUpdate of the tick in which a Shooting that is
\* finished is swapped for Idling.
C27_Witness ==
    /\ system = "pre_update_end"
    /\ In("Shooting")
    /\ components[1]["Shooting"].is_finished
    /\ Queued(Remove(1, "Shooting"))
    /\ Queued([cmd |-> "insert", entity |-> 1, component |-> "Idling", data |-> NoData])

\* ... and every one of these states ends that way
C27_WitnessOf(state) ==
    /\ system = "pre_update_end"
    /\ In(state)
    /\ components[1][state].is_finished
    /\ Queued([cmd |-> "insert", entity |-> 1, component |-> "Idling", data |-> NoData])

\* the states whose handler spawns one hitbox, in its first-frame block
OneHitboxStates == {"Punching", "Flopping", "GroundSlam", "MeleeAttacking"}

\* the number of hitboxes the step spawns for fighter `e`
SpawnedFor(e) ==
    LET hitbox(c) == c = AttackSpawn(e) IN Len(SelectSeq(NewCommands, hitbox))

\* the handler of `state` has run in this tick, if the state was on the fighter
\* when the Update stage began
HandlerHasRun == system \notin UpdateStage \ {"update_end"}

\* C28: a hitbox (an Attack child entity) is spawned only by the handler of
\* Punching, Flopping, GroundSlam, MeleeAttacking or Chaining, one per fighter
\* and tick.  For the first four it is spawned on the tick on which has_started
\* goes up, which is the first handler tick of the activation and comes in the
\* tick in which the state is entered; has_started never goes down again, so an
\* activation spawns exactly one.  Chaining spawns one on the tick on which it
\* starts (link 0) and one on each tick that honours a continuation, which
\* adds 1 to link; link never goes down nor above Chaining::LENGTH = 2, so an
\* activation spawns at most three.
C28_OneHitboxPerActivation ==
    [][\A e \in Fighters :
          /\ SpawnedFor(e) <= 1
          /\ SpawnedFor(e) = 1
             => \E state \in (OneHitboxStates \cup {"Chaining"}) \cap DOMAIN components[e] :
                   /\ system = (IF state = "Chaining" THEN "chaining" ELSE HandlerOf[state])
                   /\ e \in Matches(system)
                   /\ StaysIn(e, state)
          /\ \A state \in OneHitboxStates \cap DOMAIN components[e] :
                /\ HandlerHasRun => components[e][state].has_started
                /\ StaysIn(e, state)
                   => /\ components[e][state].has_started
                         => (components'[e][state].has_started /\ SpawnedFor(e) = 0)
                      /\ ~components[e][state].has_started
                         => (components'[e][state].has_started <=> SpawnedFor(e) = 1)
          /\ Has(e, "Chaining")
             => LET old == components[e]["Chaining"] IN
                /\ HandlerHasRun => old.has_started
                /\ old.link \in 0..Chaining_LENGTH
                /\ ~old.has_started => old.link = 0
                /\ StaysIn(e, "Chaining")
                   => LET new == components'[e]["Chaining"] IN
                      /\ old.has_started => new.has_started
                      /\ new.link = old.link + (IF old.has_started THEN SpawnedFor(e) ELSE 0)
                      /\ ~old.has_started => (new.has_started <=> SpawnedFor(e) = 1)]_vars

\* C28 witness: the end of the Update stage of the tick in which a chain has
\* spawned its third hitbox, for the second continuation.
C28_Witness ==
    /\ system = "update_end"
    /\ \E e \in With("Chaining") :
          /\ components[e]["Chaining"].link = Chaining_LENGTH
          /\ Queued(AttackSpawn(e))

\* ... and the one hitbox of an activation of `state`
C28_WitnessOf(state) ==
    /\ system = "update_end"
    /\ \E e \in With(state) : Queued(AttackSpawn(e))

\* fighter `e` is as it was before the step: state components, velocity,
\* weapon, and no hitbox spawned for it
Skipped(e) ==
    /\ components'[e] = components[e]
    /\ velocity'[e] = velocity[e]
    /\ weapon'[e] = weapon[e]
    /\ SpawnedFor(e) = 0

\* C29: when melee_attacking runs for a fighter in MeleeAttacking that has no
\* MeleeWeapon child, and when shooting runs for a fighter in Shooting that has no
\* ProjectileWeapon child, the handler spawns no hitbox and no bullet (no ammo
\* is taken), and leaves has_started, is_finished and spawned_bullet, the whole
\* state component and the velocity of the fighter as they were.
C29_MissingWeaponIsSkipped ==
    [][\A e \in Fighters :
          /\ (/\ system = "melee_attacking"
              /\ Has(e, "MeleeAttacking")
              /\ weapon[e].kind # "MeleeWeapon") => Skipped(e)
          /\ (/\ system = "shooting"
              /\ Has(e, "Shooting")
              /\ weapon[e].kind # "ProjectileWeapon") => Skipped(e)]_vars

\* C29 witness: melee_attacking has run (fighter 2 has started its attack and
\* has its hitbox) and has passed over fighter 1, which is in MeleeAttacking
\* without a weapon, has not started and still moves.
C29_Witness ==
    /\ system \in {"shooting", "update_end"}
    /\ Has(1, "MeleeAttacking") /\ Has(2, "MeleeAttacking")
    /\ weapon[1] = NoWeapon
    /\ ~components[1]["MeleeAttacking"].has_started
    /\ velocity[1] # ZERO
    /\ components[2]["MeleeAttacking"].has_started
    /\ Queued(AttackSpawn(2))
    /\ ~Queued(AttackSpawn(1))

\* the same for shooting
C29_WitnessShooting ==
    /\ system = "update_end"
    /\ Has(1, "Shooting") /\ Has(2, "Shooting")
    /\ weapon[1] = NoWeapon
    /\ ~components[1]["Shooting"].has_started
    /\ velocity[1] # ZERO
    /\ components[2]["Shooting"].has_started
    /\ velocity[2] = ZERO


\* the states whose handler leaves the fighter at rest
RestStates ==
    {"Idling", "Punching", "MeleeAttacking", "Shooting", "ProjectileAttacking",
     "BossBombThrow"}

\* the states whose handler moves the fighter by a profile over frame windows
ProfileStates == {"Flopping", "GroundSlam", "Chaining"}

VelocityHandlerOf ==
    [Idling |-> "idling", Punching |-> "punching", Flopping |-> "flopping",
     GroundSlam |-> "ground_slam", Chaining |-> "chaining",
     BossBombThrow |-> "bomb_throw", MeleeAttacking |-> "melee_attacking",
     Shooting |-> "shooting", ProjectileAttacking |-> "projectile_attacking"]

\* the velocity the handler of `state` leaves for a fighter whose clip is
\* `anim` and who faces `fac`
ProfileVelocity(state, anim, fac) ==
    LET frame == anim.current_frame
        side == IF fac = Left THEN -1 ELSE 1
        rise(total) ==
            IF frame < AttackFrames.startup THEN total \div AttackFrames.startup
            ELSE IF frame < AttackFrames.active
                 THEN 0 - (total \div (AttackFrames.active - AttackFrames.startup))
                 ELSE 0
    IN  CASE state = "Flopping" ->
               IF anim.finished THEN <<0, 0>>
               ELSE <<IF frame < AttackFrames.recovery THEN side * 200 ELSE 0, rise(200)>>
          [] state = "GroundSlam" ->
               IF anim.finished THEN <<0, 0>>
               ELSE <<IF frame < AttackFrames.startup THEN side * 50 ELSE 0, rise(800)>>
          [] state = "Chaining" ->
               <<IF frame > AttackFrames.startup /\ frame < AttackFrames.recovery
                 THEN side * 100 ELSE 0, 0>>
          [] OTHER -> <<0, 0>>

\* the fighter has what the handler of `state` asks for besides the state
Armed(e, state) ==
    CASE state = "MeleeAttacking" -> weapon[e].kind = "MeleeWeapon"
      [] state = "Shooting" -> weapon[e].kind = "ProjectileWeapon"
      [] OTHER -> TRUE

\* C30: no residual drift.  When the handlers of a tick have all run, a fighter
\* in Idling, Punching, MeleeAttacking with a melee weapon, Shooting with a
\* projectile weapon, ProjectileAttacking or BossBombThrow has velocity zero,
\* and a fighter in Flopping, GroundSlam or Chaining has the velocity its
\* profile gives for the frame its clip shows; and the step of each of these
\* handlers leaves that velocity whatever the velocity was before it, so
\* nothing of the previous tick's velocity is left.  (A step of shooting that
\* ends in the overflow panic ends the run, and no tick ends after it.)
C30_NoResidualDrift ==
    [][\A e \in Fighters : \A state \in RestStates \cup ProfileStates :
          /\ (/\ system = "update_end"
              /\ Has(e, state)
              /\ Armed(e, state))
             => velocity[e] = ProfileVelocity(state, animation[e], facing[e])
          /\ (/\ system = VelocityHandlerOf[state]
              /\ system' # "panicked"
              /\ Has(e, state)
              /\ Armed(e, state))
             => velocity'[e] = ProfileVelocity(state, animation'[e], facing'[e])]_vars

\* C30 witness: a fighter that moved in the tick before and is in Punching in
\* this one stands before the punching handler with the velocity of the move.
C30_Witness ==
    /\ system = "punching"
    /\ \E e \in Fighters :
          /\ Has(e, "Punching")
          /\ ~components[e]["Punching"].has_started
          /\ velocity[e] # ZERO

\* the handlers of a tick have run and the fighter in `state` has the
\* velocity `v`
C30_WitnessOf(state, v) ==
    /\ system = "update_end"
    /\ \E e \in Fighters : Has(e, state) /\ Armed(e, state) /\ velocity[e] = v


\* the commands of kind `kinds` a step queues
NewOfKind(kinds) == {i \in 1..Len(NewCommands) : NewCommands[i].cmd \in kinds}

\* the commands a step queues for fighter `e`
NewFor(e) ==
    SelectSeq(NewCommands, LAMBDA c : "entity" \in DOMAIN c /\ c.entity = e)

\* C31: single inventory slot.  A run of grabbing changes an inventory only
\* from empty to occupied and only for a Grabbing fighter, and takes (despawns,
\* or puts over a head) at most one ground item for each Grabbing fighter with
\* an empty inventory; a Grabbing fighter that already carries an item keeps
\* its inventory, its queue and its attacks and only loses Grabbing.  A run of
\* throwing leaves the inventory of every Throwing fighter empty whatever it
\* carried, and for a fighter that carried nothing it queues the removal of
\* Throwing and nothing else, and changes nothing else.
C31_SingleInventorySlot ==
    [][/\ system = "grabbing" =>
             LET m == Matches("grabbing")
                 free == {e \in m : inventory[e] = "none"}
             IN  /\ \A e \in Fighters :
                       inventory'[e] # inventory[e] =>
                          e \in free /\ inventory'[e] \in ItemKinds
                 /\ Cardinality(NewOfKind({"despawn_item", "hold_item"}))
                       <= Cardinality(free)
                 /\ Len(script_item_grab_events') - Len(script_item_grab_events)
                       <= Cardinality(free)
                 /\ \A e \in m \ free :
                       /\ transition_intents'[e] = transition_intents[e]
                       /\ available_attacks'[e] = available_attacks[e]
                       /\ NewFor(e) = <<Remove(e, "Grabbing")>>
                 /\ free = {} => NewOfKind({"despawn_item", "hold_item", "spawn_weapon"}) = {}
       /\ system = "throwing" =>
             LET m == Matches("throwing") IN
             /\ \A e \in Fighters :
                   inventory'[e] = IF e \in m THEN "none" ELSE inventory[e]
             /\ \A e \in m :
                   inventory[e] = "none" =>
                      /\ NewFor(e) = <<Remove(e, "Throwing")>>
                      /\ available_attacks'[e] = available_attacks[e]
                      /\ transition_intents'[e] = transition_intents[e]
                      /\ components'[e] = components[e]
                      /\ weapon'[e] = weapon[e]
             /\ (\A e \in m : inventory[e] = "none") =>
                   /\ Len(NewCommands) = Cardinality(m)
                   /\ items' = items]_vars

\* C31 witness: grabbing has run over two Grabbing players within reach of
\* ground items; player 1 carried a weapon and still carries it, and only the
\* removal of its Grabbing is queued for it; player 2 carried nothing and has
\* taken one item.
C31_Witness ==
    /\ system \in {"shooting", "update_end"}
    /\ Has(1, "Grabbing") /\ Has(2, "Grabbing")
    /\ inventory[1] = "ProjectileWeapon"
    /\ inventory[2] = "Bomb"
    /\ Cardinality(DOMAIN items) = 2
    /\ Queued(Remove(1, "Grabbing"))
    /\ \E i \in DOMAIN items : Queued([cmd |-> "hold_item", item |-> i, entity |-> 2])
    /\ Cardinality({i \in 1..Len(commands) : commands[i].cmd # "remove"}) = 1

\* throwing has run for a fighter that carried nothing
C31_WitnessEmptyThrow ==
    /\ system = "grabbing"
    /\ Has(1, "Throwing")
    /\ inventory[1] = "none"
    /\ commands = <<Remove(1, "Throwing")>>

\* throwing has run for a fighter that carried an item of kind `kind`
C31_WitnessThrowOf(kind) ==
    /\ system = "grabbing"
    /\ Has(1, "Throwing")
    /\ inventory[1] = "none"
    /\ CASE kind \in {"BreakableBox", "Bomb"} -> Has(1, "Holding") /\ Queued(Remove(1, "Holding"))
         [] kind \in {"MeleeWeapon", "ProjectileWeapon"} ->
               Queued([cmd |-> "spawn_item", kind |-> kind])
         [] OTHER -> available_attacks[1] = <<"punch">> /\ Len(commands) = 1


\* the intents of priority `p` in the sequence `q`, in the order of `q`
OfPriority(q, p) == SelectSeq(q, LAMBDA t : t.priority = p)

\* the sequence `q` up to and with its first non-additive intent
RECURSIVE UpToNonAdditive(_)
UpToNonAdditive(q) ==
    IF q = <<>> THEN <<>>
    ELSE IF ~Head(q).is_additive THEN <<Head(q)>>
         ELSE <<Head(q)>> \o UpToNonAdditive(Tail(q))

\* the priorities above that of the current state that two or more
\* non-additive intents of the queue of a resolver call share
TiedPriorities ==
    {p \in {probe.pending[i].priority : i \in 1..Len(probe.pending)} :
        /\ p > probe.current_state_priority
        /\ Len(SelectSeq(OfPriority(probe.pending, p), LAMBDA t : ~t.is_additive)) >= 2}

\* the queue of a resolver call holds a non-additive intent of a priority above `p`
OutrankedAt(p) ==
    \E i \in 1..Len(probe.pending) :
       ~probe.pending[i].is_additive /\ probe.pending[i].priority > p

\* C32 (amended): the sort is stable, so the intents of one priority above that
\* of the current state are applied in the order they were pushed, up to and
\* with the first non-additive one of them, which ends the pass: of several
\* non-additive intents of one priority the first pushed is applied and the
\* others are dropped.  This is so unless the queue holds a non-additive intent
\* of a still higher priority: then that one ends the pass first, and none of
\* the intents of the lower priority is applied.
C32_FirstPushedOfEqualsUnlessOutranked ==
    probe.op = "resolved" =>
       \A p \in {probe.pending[i].priority : i \in 1..Len(probe.pending)} :
          p > probe.current_state_priority =>
             OfPriority(probe.applied, p) =
                IF OutrankedAt(p) THEN <<>>
                ELSE UpToNonAdditive(OfPriority(probe.pending, p))

\* C32 as stated: whenever several non-additive intents share a priority above
\* that of the current state, exactly the first pushed of them is applied.
C32_FirstPushedOfEqualsApplied ==
    probe.op = "resolved" =>
       \A p \in TiedPriorities :
          SelectSeq(OfPriority(probe.applied, p), LAMBDA t : ~t.is_additive) =
             <<Head(SelectSeq(OfPriority(probe.pending, p), LAMBDA t : ~t.is_additive))>>

\* C32 witness: a resolver call for a Punching fighter on the queue of two hits
\* in one tick and a throw press; the HitStun of the second hit was pushed
\* first and is the one the fighter is in.
C32_Witness ==
    /\ probe.op = "resolved"
    /\ probe.current_state = "Punching"
    /\ Len(probe.pending) = 3
    /\ probe.pending[1].state = "HitStun" /\ probe.pending[1].data.pushback = <<-1, 0>>
    /\ probe.pending[2].state = "Throwing"
    /\ probe.pending[3].state = "HitStun" /\ probe.pending[3].data.pushback = <<0, 0>>
    /\ probe.applied = <<probe.pending[1]>>
    /\ Has(1, "HitStun")
    /\ components[1]["HitStun"].pushback = <<-1, 0>>

\* a resolver call on two HitStun intents and a Dying intent: neither HitStun
\* is applied
C32_WitnessOutranked ==
    /\ probe.op = "resolved"
    /\ TiedPriorities = {HitStun_PRIORITY}
    /\ OutrankedAt(HitStun_PRIORITY)
    /\ Has(1, "Dying") /\ ~Has(1, "HitStun")


\* the fighter carries an item that is held over the head
CarriesOverhead(inv) == inv \in {"BreakableBox", "Bomb"}

\* C33: Holding matches the inventory.  When the commands of a resolution pass
\* have been applied (every item in an inventory was then picked up in an
\* earlier tick, and every throw of an earlier tick has had its commands
\* applied), a fighter has Holding if and only if its inventory holds a
\* BreakableBox or a Bomb.
C33_HoldingMatchesInventory ==
    [][system = "pre_update_end" =>
          \A e \in DOMAIN components' :
             ("Holding" \in DOMAIN components'[e]) <=> CarriesOverhead(inventory'[e])]_vars


\* the attack states a press of the attack button asks for
PlayerAttackStates == {"Chaining", "Punching", "Flopping", "MeleeAttacking", "Shooting"}

\* C34: a player fighter never holds and attacks at once.  In no reachable
\* state does a player have Holding together with Chaining, Punching, Flopping,
\* MeleeAttacking or Shooting.
C34_NoHoldingWhileAttacking ==
    \A e \in Fighters :
       (role[e] = "player" /\ Has(e, "Holding")) =>
          DOMAIN components[e] \cap PlayerAttackStates = {}


\* C35: ammo never underflows.  The ammo of a projectile weapon picked up with
\* MaxAmmo rounds stays within 0..MaxAmmo, every bullet takes exactly one round
\* from it, and the decrement never runs on an ammo of 0 (neither as a panic
\* nor as a wrap).
C35_AmmoNeverUnderflows ==
    [][/\ system' # "panicked"
       /\ \A e \in DOMAIN weapon' :
             weapon'[e].kind = "ProjectileWeapon" => weapon'[e].ammo \in 0..MaxAmmo
       /\ \A e \in Fighters :
             Fires(e) => weapon[e].ammo > 0 /\ weapon'[e].ammo = weapon[e].ammo - 1]_vars


WeaponKinds == {"MeleeWeapon", "ProjectileWeapon"}

\* the attacks a fighter was spawned with: all of its list but the attack of
\* the weapon it carries
BaseOf(e) ==
    IF inventory[e] \in WeaponKinds
    THEN SubSeq(available_attacks[e], 1, Len(available_attacks[e]) - 1)
    ELSE available_attacks[e]

\* C36: the attack stack stays balanced.  A fighter spawned with one attack has
\* a list of two attacks, with the attack of the weapon on top, while its
\* inventory holds a MeleeWeapon or a ProjectileWeapon, and of one attack
\* otherwise: the list is never empty.  The list changes only in grabbing,
\* where the pickup of a weapon pushes the attack of that weapon, and in
\* throwing, where the throw of a weapon pops it; the attacks below stay as
\* they are.
C36_AttackStackBalanced ==
    [][/\ \A e \in Fighters :
             /\ Len(available_attacks[e]) = (IF inventory[e] \in WeaponKinds THEN 2 ELSE 1)
             /\ inventory[e] \in WeaponKinds =>
                   available_attacks[e][2] = (IF inventory[e] = "MeleeWeapon"
                                              THEN "melee" ELSE "projectile")
       /\ \A e \in Fighters \cap DOMAIN available_attacks' :
             /\ BaseOf(e)' = BaseOf(e)
             /\ Len(available_attacks'[e]) > Len(available_attacks[e]) =>
                   /\ system = "grabbing"
                   /\ inventory[e] = "none" /\ inventory'[e] \in WeaponKinds
             /\ Len(available_attacks'[e]) < Len(available_attacks[e]) =>
                   /\ system = "throwing"
                   /\ inventory[e] \in WeaponKinds /\ inventory'[e] = "none"]_vars

\* C36 witness: a player that picked up a weapon has thrown it in this tick;
\* the weapon is on its way back to the ground and the list holds the base
\* attack alone.
C36_Witness ==
    /\ \E e \in Fighters :
          /\ Has(e, "Throwing")
          /\ inventory[e] = "none"
          /\ weapon[e].kind = "MeleeWeapon"
          /\ available_attacks[e] = <<"chain">>
    /\ Queued([cmd |-> "spawn_item", kind |-> "MeleeWeapon"])

\* a player carries a weapon of kind `kind` and has its attack on top
C36_WitnessCarrying(kind) ==
    \E e \in Fighters :
       /\ inventory[e] = kind
       /\ Len(available_attacks[e]) = 2
       /\ weapon[e].kind = kind


\* the systems of CoreStage::PreUpdate, and the end of the stage
PreUpdateStage == {Schedule[i] : i \in 1..IndexOf("pre_update_end")}

\* C37: Moving is never present at resolution.  From the start of a tick to
\* the end of its resolution stage no fighter has Moving: the end of the
\* handler stage takes Moving from every fighter that has it and leaves the
\* fighter in Idling, whose transition step resolves its queue in the next
\* tick.
C37_MovingAbsentAtResolution ==
    [][/\ system \in PreUpdateStage \cup {"frame_end"} =>
             \A e \in Fighters : ~Has(e, "Moving")
       /\ system = "update_end" =>
             \A e \in Fighters :
                Has(e, "Moving") =>
                   /\ e \in DOMAIN components'
                   /\ "Moving" \notin DOMAIN components'[e]
                   /\ "Idling" \in DOMAIN components'[e]
       /\ system = "transition_from_idle" =>
             \A e \in Matches("transition_from_idle") :
                (animation[e].current_animation = "running"
                 /\ Interrupting(e, Idling_PRIORITY) # {})
                   => LET w == Winner(e, Idling_PRIORITY)
                          took == Remove(e, "Idling")
                          put == [cmd |-> "insert", entity |-> e,
                                  component |-> w.state, data |-> w.data]
                      IN  \E n \in 1..(Len(commands') - 1) :
                             commands'[n] = took /\ commands'[n + 1] = put]_vars

\* a fighter that was Moving in the tick before (its clip is still the one the
\* moving handler plays, which idling would have replaced) is in `state` when
\* the resolution stage of this tick has ended
WasMovingNowIn(state) ==
    /\ system \in UpdateStage
    /\ commands = <<>>
    /\ \E e \in Fighters :
          /\ Has(e, state)
          /\ ~Has(e, "Idling") /\ ~Has(e, "Moving")
          /\ animation[e].current_animation = "running"

\* C37 witness: a fighter that was Moving in tick N is in HitStun after the
\* resolution stage of tick N+1.
C37_Witness == WasMovingNowIn("HitStun")

====
